---- MODULE Spec2Model ----
(***************************************************************************)
(* DESeq2 dashboard: the result loader and its process-wide cache          *)
(* (utils.py), the comparison merger, the DEG extractor and the update     *)
(* callbacks of the volcano, scatter and Venn tabs (app.py).               *)
(*                                                                         *)
(* Data frames are objects on a heap: the cache and the callers hold       *)
(* references, DataFrame.copy() allocates a new object, and a column       *)
(* assignment df[c] = ... changes the object in place.                     *)
(*                                                                         *)
(* Numbers are integers: a significance value v stands for v * 0.05 and a  *)
(* fold change for itself.                                                 *)
(***************************************************************************)
EXTENDS Integers, Sequences, FiniteSets, TLC

(***************************************************************************)
(* Bounds of the model.                                                    *)
(***************************************************************************)
MaxRows == 2
MaxSegs == 3

Paths == {"p1", "p2", "p3"}
NoPath == ""
Slots == {"x"}
ObjIds == 1 .. (2 * Cardinality(Paths) + Cardinality(Slots) + 4)
NoRef == 0

(***************************************************************************)
(* Cells of a table.                                                       *)
(***************************************************************************)
Cell(kind, val, aux, t) == [kind |-> kind, val |-> val, aux |-> aux, s |-> t]
Num(n) == Cell("num", n, 0, "")
Missing == Cell("na", 0, 0, "")
PosInf == Cell("inf", 1, 0, "")
NegInf == Cell("inf", -1, 0, "")
Str(t) == Cell("str", 0, 0, t)
Flag(b) == Cell("bool", IF b THEN 1 ELSE 0, 0, "")

IsNum(c) == c.kind = "num"
notna(c) == c.kind # "na"

(***************************************************************************)
(* Tables: a header (set of column names) and a sequence of rows, each a   *)
(* function from the header to cells.                                      *)
(***************************************************************************)
NoTable == [cols |-> {}, rows |-> <<>>]
MkTable(cols, rows) == [cols |-> cols, rows |-> rows]
len(t) == Len(t.rows)

RECURSIVE SeqFilter(_, _)
SeqFilter(sq, keep) ==
    IF sq = <<>> THEN <<>>
    ELSE IF keep[1] THEN <<Head(sq)>> \o SeqFilter(Tail(sq), Tail(keep))
         ELSE SeqFilter(Tail(sq), Tail(keep))

\* df[mask]: a new frame with the rows whose mask entry is true
BoolIndex(t, mask) == MkTable(t.cols, SeqFilter(t.rows, mask))

\* df[c] = values, on a frame value: adds the column or overwrites it
SetColumn(t, c, values) ==
    MkTable(t.cols \cup {c},
            [i \in 1 .. Len(t.rows) |->
                [k \in t.cols \cup {c} |-> IF k = c THEN values[i] ELSE t.rows[i][k]]])

ColumnList(t, c) == [i \in 1 .. Len(t.rows) |-> t.rows[i][c]]

(***************************************************************************)
(* State.                                                                  *)
(***************************************************************************)
VARIABLES
    fileContent,   \* path -> the table written in the file (static per path)
    exists,        \* path -> whether the file is on disk now
    heap,          \* object id -> data frame
    _data_cache,   \* path -> reference of the cached frame, NoRef if absent
    held,          \* slot -> the frame a client of load() holds and its path
    stored,        \* path -> the frame value stored at the miss that cached it
    firstRet,      \* path -> the frame value the first successful load returned
    last,          \* the most recent call and what it returned
    tree,          \* the directories of result files on disk
    available_files, \* the catalog discover returned, app.py line 39
    file_options,  \* the dropdown options made of the catalog, app.py line 42
    offered,       \* the components most recently served to the browser
    data_store,    \* tab -> the data its update callback returned last
    shown,         \* the most recent get_file_display_name call and its result
    calls          \* thread -> the load call it is in, and how far it has got

vars == <<fileContent, exists, heap, _data_cache, held, stored, firstRet, last,
          tree, available_files, file_options, offered, data_store, shown, calls>>

(***************************************************************************)
(* Heap.                                                                   *)
(***************************************************************************)
NewRef(hp) ==
    CHOOSE i \in ObjIds : i \notin DOMAIN hp /\ \A j \in ObjIds : j \notin DOMAIN hp => i <= j

LiveRefs(cch, hld) == ({cch[p] : p \in Paths} \cup {hld[sl].ref : sl \in Slots}) \ {NoRef}

\* objects no reference reaches are dropped
Collect(hp, cch, hld) == [i \in (DOMAIN hp \cap LiveRefs(cch, hld)) |-> hp[i]]

\* DataFrame.copy(): a new object with the same contents
DataFrameCopy(hp, r) == [heap |-> hp @@ (NewRef(hp) :> hp[r]), ref |-> NewRef(hp)]

(***************************************************************************)
(* Result loader, utils.py load_deseq2_file.                               *)
(***************************************************************************)
\* line 129
required_cols_fold_change_only == {"log2FoldChange"}

required_cols == {"gene_symbol", "log2FoldChange"}

missing_cols(file) == {col \in required_cols : col \notin file.cols}

\* line 141 alone: the gene identifier becomes a string, infinite values stay
SanitizeIdOnly(col, c) ==
    IF col = "gene_symbol" THEN (IF c.kind = "na" THEN Str("nan") ELSE c) ELSE c

\* lines 134-141 on one cell: +-inf of a numeric column becomes missing, the
\* gene identifier becomes a string ("nan" for a missing one)
Sanitize(col, c) ==
    IF col = "gene_symbol"
    THEN (IF c.kind = "na" THEN Str("nan") ELSE c)
    ELSE IF c.kind = "inf" THEN Missing ELSE c

\* read_csv followed by the sanitising of lines 134-141
ParseFile(file) ==
    MkTable(file.cols,
            [i \in 1 .. Len(file.rows) |->
                [col \in file.cols |-> Sanitize(col, file.rows[i][col])]])

\* line 123: os.path.exists(file_path)
os_path_exists_unchecked(file_path) == TRUE

os_path_exists(file_path) == exists[file_path]

\* one attempt to load a path: how it ended, whether the cache served it, the
\* frame value handed to the caller and whether the caller's frame is the
\* cached object itself; and, of the moment of the call, whether the file was
\* on disk
Attempt(file_path, kind, hit, value, aliased) ==
    [path |-> file_path, kind |-> kind, hit |-> hit, value |-> value,
     aliased |-> aliased, existed |-> exists[file_path]]

\* a failure that also drops the entry of the path from the cache
RaiseEvicting(err, hp, cch, file_path) ==
    [kind |-> err, heap |-> hp, cache |-> [cch EXCEPT ![file_path] = NoRef], ref |-> NoRef,
     loads |-> <<Attempt(file_path, err, FALSE, NoTable, FALSE)>>]

\* lines 124 and 132: raise
Raise(err, hp, cch, file_path) ==
    [kind |-> err, heap |-> hp, cache |-> cch, ref |-> NoRef,
     loads |-> <<Attempt(file_path, err, FALSE, NoTable, FALSE)>>]

Return(hp, cch, r, file_path, hit) ==
    [kind |-> "ok", heap |-> hp, cache |-> cch, ref |-> r,
     loads |-> <<Attempt(file_path, "ok", hit, hp[r], \E p \in Paths : cch[p] = r)>>]

\* line 120: return _data_cache[file_path].copy()
CacheHitNoCopy(hp, cch, file_path) == Return(hp, cch, cch[file_path], file_path, TRUE)

\* a hit that stores the copy it hands out as the new entry of the path
CacheHitRefresh(hp, cch, file_path) ==
    LET cp == DataFrameCopy(hp, cch[file_path])
    IN  Return(cp.heap, [cch EXCEPT ![file_path] = cp.ref], cp.ref, file_path, TRUE)

CacheHit(hp, cch, file_path) ==
    LET cp == DataFrameCopy(hp, cch[file_path])
    IN  Return(cp.heap, cch, cp.ref, file_path, TRUE)

\* lines 144-147: _data_cache[file_path] = df.copy(); return df
CacheStoreNoCopy(hp, cch, file_path, df) ==
    Return(hp, [cch EXCEPT ![file_path] = df], df, file_path, FALSE)

CacheStore(hp, cch, file_path, df) ==
    LET cp == DataFrameCopy(hp, df)
    IN  Return(cp.heap, [cch EXCEPT ![file_path] = cp.ref], df, file_path, FALSE)

load_deseq2_file(hp, cch, file_path, use_cache) ==
    IF use_cache /\ cch[file_path] # NoRef
    THEN CacheHit(hp, cch, file_path)
    ELSE IF ~os_path_exists(file_path)
    THEN Raise("NotFound", hp, cch, file_path)
    ELSE IF missing_cols(fileContent[file_path]) # {}
    THEN Raise("SchemaError", hp, cch, file_path)
    ELSE LET df == NewRef(hp)
             hp1 == hp @@ (df :> ParseFile(fileContent[file_path]))
         IN  IF use_cache THEN CacheStore(hp1, cch, file_path, df)
             ELSE Return(hp1, cch, df, file_path, FALSE)

\* utils.py clear_cache
clear_cache(cch) == [p \in Paths |-> NoRef]

(***************************************************************************)
(* Comparison merger, utils.py merge_comparisons.                          *)
(***************************************************************************)
\* line 176: suffixes=("_1", "_2")
suffixesSwapped == <<"_2", "_1">>

suffixes == <<"_1", "_2">>

Common(df1, df2) == (df1.cols \cap df2.cols) \ {"gene_symbol"}

\* the cells of row r in the columns cols, each column renamed with the suffix
Suffixed(cols, sfx, r) ==
    [k \in {col \o sfx : col \in cols} |-> r[CHOOSE col \in cols : col \o sfx = k]]

\* the cells of row r in the columns cols; NoRow stands for the absent side
\* of an unmatched row, whose cells are missing
NoRow == <<>>
Side(cols, r) == [col \in cols |-> IF r = NoRow THEN Missing ELSE r[col]]

MergedCols(df1, df2) ==
    {"gene_symbol"}
        \cup {col \o suffixes[1] : col \in Common(df1, df2)}
        \cup {col \o suffixes[2] : col \in Common(df1, df2)}
        \cup ((df1.cols \cup df2.cols) \ (df1.cols \cap df2.cols))

\* the row of the result made of a row of each side
MergedRow(df1, df2, r1, r2) ==
    ("gene_symbol" :> r1["gene_symbol"])
        @@ Suffixed(Common(df1, df2), suffixes[1], r1)
        @@ Suffixed(Common(df1, df2), suffixes[2], Side(Common(df1, df2), r2))
        @@ Side(df1.cols \ df2.cols, r1)
        @@ Side(df2.cols \ df1.cols, r2)

\* every row of df2, whatever its key
MatchesOfAnyKey(r1, df2) == df2.rows

\* the rows of df2 with the key of r1, in df2's order
MatchesOf(r1, df2) ==
    SeqFilter(df2.rows,
              [j \in 1 .. Len(df2.rows) |->
                  df2.rows[j]["gene_symbol"] = r1["gene_symbol"]])

RECURSIVE JoinRows(_, _, _, _)
JoinRows(df1, df2, i, keepUnmatched) ==
    IF i > Len(df1.rows) THEN <<>>
    ELSE LET r1 == df1.rows[i]
             ms == MatchesOf(r1, df2)
             out == IF ms = <<>> /\ keepUnmatched
                    THEN <<MergedRow(df1, df2, r1, NoRow)>>
                    ELSE [m \in 1 .. Len(ms) |-> MergedRow(df1, df2, r1, ms[m])]
         IN  out \o JoinRows(df1, df2, i + 1, keepUnmatched)

\* lines 171-177 with how="left"
pd_merge_left(df1, df2) == MkTable(MergedCols(df1, df2), JoinRows(df1, df2, 1, TRUE))

\* lines 171-177: pd.merge(df1, df2, on="gene_symbol", how="inner", suffixes=...)
pd_merge(df1, df2) == MkTable(MergedCols(df1, df2), JoinRows(df1, df2, 1, FALSE))

\* a failure caught inside the merger: an empty frame is returned instead
merge_comparisons_swallow(hp, cch, file_path1, file_path2) ==
    LET l1 == load_deseq2_file(hp, cch, file_path1, TRUE)
        l2 == load_deseq2_file(l1.heap, l1.cache, file_path2, TRUE)
        m == NewRef(l2.heap)
    IN  [kind |-> "ok", cache |-> l2.cache, ref |-> m,
         loads |-> l1.loads \o l2.loads,
         heap |-> l2.heap @@ (m :> IF l1.kind = "ok" /\ l2.kind = "ok"
                                    THEN pd_merge(l2.heap[l1.ref], l2.heap[l2.ref])
                                    ELSE MkTable({"gene_symbol"}, <<>>))]

merge_comparisons(hp, cch, file_path1, file_path2) ==
    LET l1 == load_deseq2_file(hp, cch, file_path1, TRUE)
    IN  IF l1.kind # "ok" THEN l1
        ELSE LET l2 == load_deseq2_file(l1.heap, l1.cache, file_path2, TRUE)
             IN  IF l2.kind # "ok"
                 THEN [l2 EXCEPT !.loads = l1.loads \o l2.loads]
                 ELSE LET m == NewRef(l2.heap)
                      IN  [kind |-> "ok", cache |-> l2.cache, ref |-> m,
                           loads |-> l1.loads \o l2.loads,
                           heap |-> l2.heap @@
                               (m :> pd_merge(l2.heap[l1.ref], l2.heap[l2.ref]))]

(***************************************************************************)
(* DEG extractor, utils.py extract_degs.                                   *)
(***************************************************************************)
\* comparisons of a cell with a number: false on a missing cell
Lt(c, x) == IsNum(c) /\ c.val < x
Gt(c, x) == IsNum(c) /\ c.val > x
Le(c, x) == IsNum(c) /\ c.val <= x
Ge(c, x) == IsNum(c) /\ c.val >= x
Abs(c) == IF IsNum(c) /\ c.val < 0 THEN Num(-c.val) ELSE c

\* lines 209, 217, 225: the column the thresholds are applied to
NoColumn == "none"

SignificanceColumnRawFirst(df) ==
    IF "pvalue" \in df.cols THEN "pvalue"
    ELSE IF "padj" \in df.cols THEN "padj"
    ELSE NoColumn

SignificanceColumn(df) ==
    IF "padj" \in df.cols THEN "padj"
    ELSE IF "pvalue" \in df.cols THEN "pvalue"
    ELSE NoColumn

\* lines 210-215 and 218-223 with inclusive comparisons
DegMaskInclusive(df, p_col, padj_threshold, lfc_threshold) ==
    [i \in 1 .. Len(df.rows) |->
        /\ Le(df.rows[i][p_col], padj_threshold)
        /\ notna(df.rows[i][p_col])
        /\ Ge(Abs(df.rows[i]["log2FoldChange"]), lfc_threshold)
        /\ notna(df.rows[i]["log2FoldChange"])]

\* lines 210-215 and 218-223
DegMask(df, p_col, padj_threshold, lfc_threshold) ==
    [i \in 1 .. Len(df.rows) |->
        /\ Lt(df.rows[i][p_col], padj_threshold)
        /\ notna(df.rows[i][p_col])
        /\ Gt(Abs(df.rows[i]["log2FoldChange"]), lfc_threshold)
        /\ notna(df.rows[i]["log2FoldChange"])]

\* str(g) of a gene identifier cell
str(g) == IF g.kind = "na" THEN "nan" ELSE g.s

\* every identifier kept, the marker of a missing one too
DegsSetKeepMarker(degs) == {str(degs[i]) : i \in 1 .. Len(degs)}

\* line 229
DegsSet(degs) ==
    {str(degs[i]) : i \in {j \in 1 .. Len(degs) : notna(degs[j]) /\ str(degs[j]) # "nan"}}

\* lines 208-226, on the loaded frame
DegsList(df, padj_threshold, lfc_threshold) ==
    IF SignificanceColumn(df) = NoColumn THEN <<>>
    ELSE ColumnList(BoolIndex(df, DegMask(df, SignificanceColumn(df),
                                          padj_threshold, lfc_threshold)),
                    "gene_symbol")

\* a failure caught inside the extractor: the empty set is returned instead
extract_degs_swallow(hp, cch, file_path, padj_threshold, lfc_threshold) ==
    LET l == load_deseq2_file(hp, cch, file_path, TRUE)
    IN  [kind |-> "ok", heap |-> l.heap, cache |-> l.cache, loads |-> l.loads,
         degs |-> IF l.kind # "ok" THEN {}
                  ELSE DegsSet(DegsList(l.heap[l.ref], padj_threshold, lfc_threshold))]

\* a load that failed is tried a second time before the failure is passed on
extract_degs_retry(hp, cch, file_path, padj_threshold, lfc_threshold) ==
    LET l1 == load_deseq2_file(hp, cch, file_path, TRUE)
        l2 == load_deseq2_file(l1.heap, l1.cache, file_path, TRUE)
        l == IF l1.kind = "ok" THEN l1 ELSE [l2 EXCEPT !.loads = l1.loads \o l2.loads]
    IN  [kind |-> l.kind, heap |-> l.heap, cache |-> l.cache, loads |-> l.loads,
         degs |-> IF l.kind # "ok" THEN {}
                  ELSE DegsSet(DegsList(l.heap[l.ref], padj_threshold, lfc_threshold))]

extract_degs(hp, cch, file_path, padj_threshold, lfc_threshold) ==
    LET l == load_deseq2_file(hp, cch, file_path, TRUE)
    IN  [kind |-> l.kind, heap |-> l.heap, cache |-> l.cache, loads |-> l.loads,
         degs |-> IF l.kind # "ok" THEN {}
                  ELSE DegsSet(DegsList(l.heap[l.ref], padj_threshold, lfc_threshold))]

(***************************************************************************)
(* Volcano tab, app.py update_volcano_plot: the derived columns.           *)
(***************************************************************************)
\* -log10(x.replace(0, nan)), kept symbolic: the cell stands for -log10(val)
NegLog10(c) == IF IsNum(c) /\ c.val # 0 THEN Cell("neglog10", c.val, 0, "") ELSE Missing

\* (neg_log10_p * |log2FoldChange|).fillna(0): the cell stands for -log10(val) * aux
Strength(nl, lfc) ==
    IF nl.kind = "neglog10" /\ IsNum(lfc) THEN Cell("strength", nl.val, Abs(lfc).val, "")
    ELSE Num(0)

\* line 561
Significant(row, p_col, fdr_threshold, lfc_threshold) ==
    Lt(row[p_col], fdr_threshold) /\ Gt(Abs(row["log2FoldChange"]), lfc_threshold)

\* the label by the sign of the fold change alone
DirectionBySign(sig, lfc) ==
    IF Gt(lfc, 0) THEN Str("Up-regulated")
    ELSE IF Lt(lfc, 0) THEN Str("Down-regulated")
    ELSE Str("Not significant")

\* lines 562-564
Direction(sig, lfc) ==
    IF sig /\ Gt(lfc, 0) THEN Str("Up-regulated")
    ELSE IF sig /\ Lt(lfc, 0) THEN Str("Down-regulated")
    ELSE Str("Not significant")

\* lines 549-572: the four column assignments, on a frame value
VolcanoDerive(df, fdr_threshold, lfc_threshold) ==
    LET p_col == SignificanceColumn(df)
        n == Len(df.rows)
        nl == [i \in 1 .. n |->
                 IF p_col = NoColumn THEN Missing ELSE NegLog10(df.rows[i][p_col])]
        sg == [i \in 1 .. n |->
                 IF p_col = NoColumn THEN FALSE
                 ELSE Significant(df.rows[i], p_col, fdr_threshold, lfc_threshold)]
        d1 == SetColumn(df, "neg_log10_p", nl)
        d2 == SetColumn(d1, "significant", [i \in 1 .. n |-> Flag(sg[i])])
        d3 == SetColumn(d2, "direction",
                        [i \in 1 .. n |-> Direction(sg[i], df.rows[i]["log2FoldChange"])])
    IN  SetColumn(d3, "regulation_strength",
                  [i \in 1 .. n |-> Strength(nl[i], df.rows[i]["log2FoldChange"])])

(***************************************************************************)
(* The record of the most recent call.                                     *)
(***************************************************************************)
NoOverlaps == [n |-> 0, only_1 |-> {}, only_2 |-> {}, only_3 |-> {},
               overlap |-> {}, overlap_12 |-> {}, overlap_13 |-> {},
               overlap_23 |-> {}, overlap_all |-> {}]

\* kind: how the call ended ("ok"; a raised "NotFound" or "SchemaError"; for
\* a callback also "empty" and "warning", a message and no data, and "error",
\* an exception caught by the callback, named in err).  table: the frame
\* returned, or the records a callback puts in its data store.
Record(op, a, b, c, n, gene_search, padj_threshold, lfc_threshold, kind, err, table, degs, overlaps, loads) ==
    [op |-> op, a |-> a, b |-> b, c |-> c, n |-> n, gene_search |-> gene_search,
     padj_threshold |-> padj_threshold, lfc_threshold |-> lfc_threshold,
     kind |-> kind, err |-> err, table |-> table, degs |-> degs,
     overlaps |-> overlaps, loads |-> loads]

Call(op, a, b, padj_threshold, lfc_threshold, kind, table, degs, loads) ==
    Record(op, a, b, NoPath, 0, "", padj_threshold, lfc_threshold, kind,
           IF kind = "ok" THEN "" ELSE kind, table, degs, NoOverlaps, loads)

NoCall == Call("none", NoPath, NoPath, 0, 0, "none", NoTable, {}, <<>>)

NoHeld == [ref |-> NoRef, path |-> NoPath]

\* history: the value each newly cached path was stored with
StoredAfter(res) ==
    [p \in Paths |->
        IF _data_cache[p] = NoRef /\ res.cache[p] # NoRef
        THEN res.heap[res.cache[p]] ELSE stored[p]]

\* history: the value the first successful load of each path returned
FirstRetAfter(loads) ==
    [p \in Paths |->
        IF firstRet[p] = NoTable /\ \E i \in 1 .. Len(loads) :
                                        loads[i].path = p /\ loads[i].kind = "ok"
        THEN loads[CHOOSE i \in 1 .. Len(loads) :
                      /\ loads[i].path = p /\ loads[i].kind = "ok"
                      /\ \A j \in 1 .. (i - 1) :
                            ~(loads[j].path = p /\ loads[j].kind = "ok")].value
        ELSE firstRet[p]]

(***************************************************************************)
(* Files.                                                                  *)
(***************************************************************************)
AllCols == {"gene_symbol", "log2FoldChange", "baseMean", "pvalue", "padj"}

\* the cell a row of a file has in a column: rows are numbered k = 1, 2, ...
SampleCell(col, k) ==
    CASE col = "gene_symbol" -> IF k = 1 THEN Str("A") ELSE Missing
      [] col = "log2FoldChange" -> IF k = 1 THEN Num(2) ELSE PosInf
      [] col = "baseMean" -> IF k = 1 THEN Num(5) ELSE NegInf
      [] col = "pvalue" -> IF k = 1 THEN Num(0) ELSE Num(2)
      [] col = "padj" -> IF k = 1 THEN Num(0) ELSE Missing

SampleFile(cols, n) ==
    MkTable(cols, [k \in 1 .. n |-> [col \in cols |-> SampleCell(col, k)]])

\* the result directory: a complete file, one without the adjusted value
\* and one without the fold change
Directories ==
    {[p \in Paths |-> SampleFile(CASE p = "p1" -> AllCols
                                    [] p = "p2" -> AllCols \ {"padj"}
                                    [] OTHER -> AllCols \ {"log2FoldChange"},
                                 MaxRows)]}

(***************************************************************************)
(* Initial state: the process has started, nothing is loaded.              *)
(***************************************************************************)
\* the threads of the process that call load, and a thread outside a call
Threads == {"t1", "t2"}
NoLoadCall == [file_path |-> NoPath, use_cache |-> TRUE, hit |-> FALSE, pc |-> 0,
               df |-> NoRef, src |-> NoRef, cp |-> NoRef, kind |-> "none", ret |-> NoTable]

\* a Python value that may be None
None == <<>>
Some(x) == <<x>>

\* the tabs, each with an update callback and a dcc.Store for its data
Callbacks == {"volcano", "scatter", "venn"}

Started ==
    /\ heap = <<>>
    /\ _data_cache = [p \in Paths |-> NoRef]
    /\ held = [sl \in Slots |-> NoHeld]
    /\ stored = [p \in Paths |-> NoTable]
    /\ firstRet = [p \in Paths |-> NoTable]
    /\ last = NoCall
    /\ data_store = [tab \in Callbacks |-> None]
    /\ calls = [t \in Threads |-> NoLoadCall]

NoDir == [exists |-> FALSE, files |-> {}]
NoResultsDir == [exists |-> FALSE, primary |-> NoDir, secondary |-> NoDir]
NoTree == [data |-> NoResultsDir, fallback |-> NoResultsDir]
NoShown == [file_path |-> <<>>, name |-> <<>>]
NoOffer == [by |-> "none", children |-> <<>>]

\* the catalog is not looked at
Unscanned == tree = NoTree /\ available_files = None /\ file_options = None /\ offered = NoOffer /\ shown = NoShown

\* the files that come and go while the program runs
Volatile == {"p1", "p3"}

Init ==
    /\ fileContent \in Directories
    /\ exists \in {e \in [Paths -> BOOLEAN] : \A p \in Paths \ Volatile : e[p]}
    /\ Started
    /\ Unscanned

(***************************************************************************)
(* Calls of the outward interface.                                         *)
(***************************************************************************)
PadjThresholds == {1}
LfcThresholds == {1}
NoSlot == "none"

\* the state after a call: res is what the loads of the call produced, hp
\* the heap when the call returns
Finish(res, hp, hld) ==
    /\ _data_cache' = res.cache
    /\ held' = hld
    /\ heap' = Collect(hp, res.cache, hld)
    /\ stored' = StoredAfter(res)
    /\ firstRet' = FirstRetAfter(res.loads)
    /\ UNCHANGED <<calls, tree, available_files, file_options, offered, shown, fileContent, exists>>

\* a client calls load and keeps the frame in a slot, or drops it (NoSlot)
LoadCall(file_path, use_cache, sl) ==
    \E res \in {load_deseq2_file(heap, _data_cache, file_path, use_cache)} :
        /\ Finish(res, res.heap,
                  IF res.kind = "ok" /\ sl # NoSlot
                  THEN [held EXCEPT ![sl] = [ref |-> res.ref, path |-> file_path]]
                  ELSE held)
        /\ last' = Call("load", file_path, NoPath, 0, 0, res.kind,
                        IF res.kind = "ok" THEN res.heap[res.ref] ELSE NoTable,
                        {}, res.loads)
        /\ UNCHANGED data_store

MergeCall(file_path1, file_path2) ==
    \E res \in {merge_comparisons(heap, _data_cache, file_path1, file_path2)} :
        /\ Finish(res, res.heap, held)
        /\ last' = Call("merge", file_path1, file_path2, 0, 0, res.kind,
                        IF res.kind = "ok" THEN res.heap[res.ref] ELSE NoTable,
                        {}, res.loads)
        /\ UNCHANGED data_store

ExtractCall(file_path, padj_threshold, lfc_threshold) ==
    \E res \in {extract_degs(heap, _data_cache, file_path,
                             padj_threshold, lfc_threshold)} :
        /\ Finish(res, res.heap, held)
        /\ last' = Call("extract_degs", file_path, NoPath, padj_threshold,
                        lfc_threshold, res.kind, NoTable, res.degs, res.loads)
        /\ UNCHANGED data_store

ClearCacheCall ==
    /\ _data_cache' = clear_cache(_data_cache)
    /\ heap' = Collect(heap, clear_cache(_data_cache), held)
    /\ stored' = [p \in Paths |-> NoTable]
    /\ last' = Call("clear_cache", NoPath, NoPath, 0, 0, "ok", NoTable, {}, <<>>)
    /\ UNCHANGED <<calls, tree, available_files, file_options, offered, data_store, shown, fileContent, exists, held, firstRet>>

\* a client changes the frame it was handed, in place: it assigns the
\* derived columns of the volcano tab
MutateHeld(sl) ==
    /\ held[sl] # NoHeld
    /\ heap' = [heap EXCEPT ![held[sl].ref] = VolcanoDerive(@, 1, 1)]
    /\ last' = Call("mutate", held[sl].path, NoPath, 0, 0, "ok", NoTable, {}, <<>>)
    /\ UNCHANGED <<calls, tree, available_files, file_options, offered, data_store, shown, fileContent, exists, _data_cache, held, stored, firstRet>>

(***************************************************************************)
(* The file system under the process.                                      *)
(***************************************************************************)
RemoveFile(p) ==
    /\ exists[p]
    /\ exists' = [exists EXCEPT ![p] = FALSE]
    /\ UNCHANGED <<calls, tree, available_files, file_options, offered, data_store, shown, fileContent, heap, _data_cache, held, stored, firstRet, last>>

AddFile(p) ==
    /\ ~exists[p]
    /\ exists' = [exists EXCEPT ![p] = TRUE]
    /\ UNCHANGED <<calls, tree, available_files, file_options, offered, data_store, shown, fileContent, heap, _data_cache, held, stored, firstRet, last>>

Next ==
    \/ \E p \in Paths, uc \in BOOLEAN, sl \in Slots \cup {NoSlot} : LoadCall(p, uc, sl)
    \/ \E a \in Paths, b \in Paths : MergeCall(a, b)
    \/ \E p \in Paths, pt \in PadjThresholds, lt \in LfcThresholds : ExtractCall(p, pt, lt)
    \/ ClearCacheCall
    \/ \E sl \in Slots : MutateHeld(sl)
    \/ \E p \in Volatile : RemoveFile(p)
    \/ \E p \in Volatile : AddFile(p)

Spec == Init /\ [][Next]_vars

(***************************************************************************)
(* Text search of the gene identifiers, str.upper().str.contains(term).    *)
(***************************************************************************)
Chars(t) ==
    CASE t = "" -> <<>>
      [] t = "A" -> <<"A">>
      [] t = "B" -> <<"B">>
      [] t = "a" -> <<"a">>
      [] t = "nan" -> <<"n", "a", "n">>

UpperChar(ch) ==
    CASE ch = "a" -> "A"
      [] ch = "n" -> "N"
      [] OTHER -> ch

upper(chars) == [k \in 1 .. Len(chars) |-> UpperChar(chars[k])]

contains(hay, needle) ==
    \E k \in 0 .. (Len(hay) - Len(needle)) : SubSeq(hay, k + 1, k + Len(needle)) = needle

\* lines 545-546 and 847-848: the mask of the rows whose identifier contains
\* the search term, case-insensitively
SearchMask(df, gene_search) ==
    [i \in 1 .. Len(df.rows) |->
        contains(upper(Chars(str(df.rows[i]["gene_symbol"]))), upper(Chars(gene_search)))]

(***************************************************************************)
(* Update callbacks of the three tabs, app.py.                             *)
(***************************************************************************)
\* DataFrame.to_dict('records'): the rows, each a dict of its cells
to_dict_records(t) == t.rows

\* the third output of an update callback, which Dash puts in the store of
\* the tab: the records or the overlaps of a result, None otherwise
StoreOf(rec) ==
    IF rec.kind # "ok" THEN None
    ELSE IF rec.op = "venn" THEN Some(rec.overlaps)
    ELSE Some(to_dict_records(rec.table))

Stores(tab, rec) == data_store' = [data_store EXCEPT ![tab] = StoreOf(rec)]

UIRecord(op, a, b, c, n, gene_search, fdr_threshold, lfc_threshold, kind, err, table, overlaps, loads) ==
    Record(op, a, b, c, n, gene_search, fdr_threshold, lfc_threshold, kind, err,
           table, {}, overlaps, loads)

\* a callback that returns before it loads anything
NoLoad(rec) ==
    /\ last' = rec
    /\ UNCHANGED <<calls, tree, available_files, file_options, offered, shown, fileContent, exists, heap, _data_cache, held, stored, firstRet>>

\* line 717: df[['gene_symbol', 'log2FoldChange', 'baseMean', 'pvalue', 'padj']]
table_columns == {"gene_symbol", "log2FoldChange", "baseMean", "pvalue", "padj"}

\* an exception that leaves the callback
reraise(e) == e

\* lines 771-781, 996-1006 and 1324-1331: except Exception turns whatever
\* was raised into an error message, returned with no data
except_Exception(e) == "error"

\* app.py update_volcano_plot
update_volcano_plot(file_path, fdr_threshold, lfc_threshold, gene_search) ==
    /\ IF file_path = NoPath
       THEN NoLoad(UIRecord("volcano", file_path, NoPath, NoPath, 0, gene_search,
                                       fdr_threshold, lfc_threshold, "empty", "",
                            NoTable, NoOverlaps, <<>>))
       ELSE \E l \in {load_deseq2_file(heap, _data_cache, file_path, TRUE)} :
              IF l.kind # "ok"
              THEN /\ Finish(l, l.heap, held)
                   /\ last' = UIRecord("volcano", file_path, NoPath, NoPath, 0, gene_search,
                                       fdr_threshold, lfc_threshold, except_Exception(l.kind),
                                       l.kind, NoTable, NoOverlaps, l.loads)
              ELSE LET \* line 546 makes a new frame; without a search term the
                       \* columns are assigned to the frame load returned
                       df == IF gene_search # "" THEN NewRef(l.heap) ELSE l.ref
                       hp1 == IF gene_search # ""
                              THEN l.heap @@ (df :> BoolIndex(l.heap[l.ref],
                                                    SearchMask(l.heap[l.ref], gene_search)))
                              ELSE l.heap
                       hp2 == [hp1 EXCEPT ![df] =
                                  VolcanoDerive(@, fdr_threshold, lfc_threshold)]
                   IN  /\ Finish(l, hp2, held)
                       /\ last' = IF table_columns \subseteq hp2[df].cols
                                  THEN UIRecord("volcano", file_path, NoPath, NoPath, 0, gene_search,
                                       fdr_threshold, lfc_threshold,
                                                "ok", "", hp2[df], NoOverlaps, l.loads)
                                  ELSE UIRecord("volcano", file_path, NoPath, NoPath, 0, gene_search,
                                       fdr_threshold, lfc_threshold,
                                                except_Exception("KeyError"), "KeyError", NoTable, NoOverlaps,
                                                l.loads)
    /\ Stores("volcano", last')

\* line 842: the fixed cut of the significance filter, 0.05
SigCut == 1

\* lines 851-853: the larger of the two absolute fold changes of a row
MaxAbs(c1, c2) ==
    IF ~IsNum(c1) THEN Abs(c2)
    ELSE IF ~IsNum(c2) THEN Abs(c1)
    ELSE IF Abs(c1).val >= Abs(c2).val THEN Abs(c1) ELSE Abs(c2)

\* lines 838-853, on the merged frame
ScatterFrame(merged, sig_filter, gene_search) ==
    LET m1 == IF sig_filter /\ {"padj_1", "padj_2"} \subseteq merged.cols
              THEN BoolIndex(merged,
                             [i \in 1 .. Len(merged.rows) |->
                                 \/ Lt(merged.rows[i]["padj_1"], SigCut)
                                 \/ Lt(merged.rows[i]["padj_2"], SigCut)])
              ELSE merged
        m2 == IF gene_search # "" THEN BoolIndex(m1, SearchMask(m1, gene_search)) ELSE m1
    IN  SetColumn(m2, "max_abs_lfc",
                  [i \in 1 .. Len(m2.rows) |->
                      MaxAbs(m2.rows[i]["log2FoldChange_1"], m2.rows[i]["log2FoldChange_2"])])

\* two selections never taken for the same file
never_same(file_path1, file_path2) == FALSE

\* line 825: file_path1 == file_path2
same_file(file_path1, file_path2) == file_path1 = file_path2

\* app.py update_scatter_plot
update_scatter_plot(file_path1, file_path2, sig_filter, n_labels, gene_search) ==
    /\ IF file_path1 = NoPath \/ file_path2 = NoPath
       THEN NoLoad(UIRecord("scatter", file_path1, file_path2, NoPath, 0, gene_search,
                                 0, 0, "empty", "",
                            NoTable, NoOverlaps, <<>>))
       ELSE IF same_file(file_path1, file_path2)
       THEN NoLoad(UIRecord("scatter", file_path1, file_path2, NoPath, 0, gene_search,
                                 0, 0, "warning", "",
                            NoTable, NoOverlaps, <<>>))
       ELSE \E m \in {merge_comparisons(heap, _data_cache, file_path1, file_path2)} :
              /\ Finish(m, m.heap, held)
              /\ last' =
                   IF m.kind # "ok"
                   THEN UIRecord("scatter", file_path1, file_path2, NoPath, 0, gene_search,
                                 0, 0, except_Exception(m.kind),
                                 m.kind, NoTable, NoOverlaps, m.loads)
                   ELSE IF n_labels = None
                   THEN \* line 857: None > 0 raises TypeError
                        UIRecord("scatter", file_path1, file_path2, NoPath, 0, gene_search,
                                 0, 0, except_Exception("TypeError"),
                                 "TypeError", NoTable, NoOverlaps, m.loads)
                   ELSE UIRecord("scatter", file_path1, file_path2, NoPath, 0, gene_search,
                                 0, 0, "ok", "",
                                 ScatterFrame(m.heap[m.ref], sig_filter, gene_search),
                                 NoOverlaps, m.loads)
    /\ Stores("scatter", last')

\* the first region not reduced by the second set
Overlaps2Whole(degs1, degs2) ==
    [NoOverlaps EXCEPT !.n = 2,
                       !.only_1 = degs1,
                       !.only_2 = degs2 \ degs1,
                       !.overlap = degs1 \cap degs2]

\* lines 1116-1145
Overlaps2(degs1, degs2) ==
    [NoOverlaps EXCEPT !.n = 2,
                       !.only_1 = degs1 \ degs2,
                       !.only_2 = degs2 \ degs1,
                       !.overlap = degs1 \cap degs2]

\* the pairwise regions not reduced by the third set
Overlaps3Pairs(degs1, degs2, degs3) ==
    [NoOverlaps EXCEPT !.n = 3,
                       !.only_1 = (degs1 \ degs2) \ degs3,
                       !.only_2 = (degs2 \ degs1) \ degs3,
                       !.only_3 = (degs3 \ degs1) \ degs2,
                       !.overlap_12 = degs1 \cap degs2,
                       !.overlap_13 = degs1 \cap degs3,
                       !.overlap_23 = degs2 \cap degs3,
                       !.overlap_all = (degs1 \cap degs2) \cap degs3]

Overlaps3(degs1, degs2, degs3) ==
    [NoOverlaps EXCEPT !.n = 3,
                       !.only_1 = (degs1 \ degs2) \ degs3,
                       !.only_2 = (degs2 \ degs1) \ degs3,
                       !.only_3 = (degs3 \ degs1) \ degs2,
                       !.overlap_12 = (degs1 \cap degs2) \ degs3,
                       !.overlap_13 = (degs1 \cap degs3) \ degs2,
                       !.overlap_23 = (degs2 \cap degs3) \ degs1,
                       !.overlap_all = (degs1 \cap degs2) \cap degs3]

\* lines 1092-1145 once the selection is accepted: the extractions in order,
\* stopping at the first that fails
VennExtract(n_comparisons, file_path1, file_path2, file_path3, fdr_threshold, lfc_threshold) ==
    LET e1 == extract_degs(heap, _data_cache, file_path1, fdr_threshold, lfc_threshold)
        e2 == extract_degs(e1.heap, e1.cache, file_path2, fdr_threshold, lfc_threshold)
        e3 == extract_degs(e2.heap, e2.cache, file_path3, fdr_threshold, lfc_threshold)
    IN  IF e1.kind # "ok"
        THEN [e1 EXCEPT !.degs = NoOverlaps]
        ELSE IF e2.kind # "ok"
        THEN [e2 EXCEPT !.degs = NoOverlaps, !.loads = e1.loads \o e2.loads]
        ELSE IF n_comparisons = 3
        THEN [e3 EXCEPT !.degs = IF e3.kind = "ok"
                                  THEN Overlaps3(e1.degs, e2.degs, e3.degs)
                                  ELSE NoOverlaps,
                        !.loads = e1.loads \o e2.loads \o e3.loads]
        ELSE IF n_comparisons = 2
        THEN [e2 EXCEPT !.degs = Overlaps2(e1.degs, e2.degs),
                        !.loads = e1.loads \o e2.loads]
        ELSE \* line 1129 reads degs3, which was never assigned
             [e2 EXCEPT !.kind = "NameError", !.degs = NoOverlaps,
                        !.loads = e1.loads \o e2.loads]

\* app.py update_venn_diagram
update_venn_diagram(n_comparisons, file_path1, file_path2, fdr_threshold, lfc_threshold, file_path3) ==
    /\ IF \/ file_path1 = NoPath \/ file_path2 = NoPath
          \/ (n_comparisons = 3 /\ file_path3 = NoPath)
          \/ (n_comparisons = 3 /\ Cardinality({file_path1, file_path2, file_path3}) # 3)
          \/ (n_comparisons # 3 /\ file_path1 = file_path2)
       THEN NoLoad(UIRecord("venn", file_path1, file_path2, file_path3, n_comparisons, "",
                                       fdr_threshold, lfc_threshold,
                            "warning", "", NoTable, NoOverlaps, <<>>))
       ELSE \E v \in {VennExtract(n_comparisons, file_path1, file_path2, file_path3,
                                 fdr_threshold, lfc_threshold)} :
              /\ Finish(v, v.heap, held)
              /\ last' = IF v.kind = "ok"
                         THEN UIRecord("venn", file_path1, file_path2, file_path3, n_comparisons, "",
                                       fdr_threshold, lfc_threshold, "ok", "", NoTable, v.degs, v.loads)
                         ELSE UIRecord("venn", file_path1, file_path2, file_path3, n_comparisons, "",
                                       fdr_threshold, lfc_threshold, except_Exception(v.kind), v.kind, NoTable,
                                       NoOverlaps, v.loads)
    /\ Stores("venn", last')

(***************************************************************************)
(* The dashboard process: the callbacks, driven by the user, and the calls *)
(* of the interface they are built on.  No callback clears the cache.      *)
(***************************************************************************)
Selections == Paths \cup {NoPath}
SearchTerms == {"", "a"}
Counts == {1, 2, 3, 4}

\* the third dropdown exists only while three comparisons are asked for;
\* its selection is empty or the last file of the catalog
ThirdSelections(n) == IF n = 3 THEN {NoPath, "p3"} ELSE {NoPath}

NextUI ==
    \/ \E fp \in Selections, gs \in SearchTerms : update_volcano_plot(fp, 1, 1, gs)
    \/ \E fp1 \in Selections, fp2 \in Selections :
            update_scatter_plot(fp1, fp2, FALSE, Some(1), "")
    \/ update_scatter_plot("p1", "p2", FALSE, None, "")
    \/ \E n \in Counts, fp1 \in Selections, fp2 \in Selections :
          \E fp3 \in ThirdSelections(n) : update_venn_diagram(n, fp1, fp2, 1, 1, fp3)
    \/ \E p \in Paths : LoadCall(p, TRUE, NoSlot)
    \/ \E a \in Paths, b \in Paths : MergeCall(a, b)
    \/ \E p \in Paths : ExtractCall(p, 1, 1)
    \/ RemoveFile("p1")
    \/ AddFile("p1")

\* the file without the fold change stays on disk; the complete file comes
\* and goes
InitUI == Init /\ exists["p3"]

SpecUI == InitUI /\ [][NextUI]_vars

(***************************************************************************)
(* Loading one file of any header, with the cache cleared now and then.    *)
(***************************************************************************)
TheDirectory == CHOOSE d \in Directories : TRUE

InitLoad ==
    /\ \E cols \in (SUBSET AllCols) \ {{}} :
          fileContent = [TheDirectory EXCEPT !["p1"] = SampleFile(cols, MaxRows)]
    /\ exists \in {e \in [Paths -> BOOLEAN] : \A p \in Paths \ Volatile : e[p]}
    /\ Started
    /\ Unscanned

NextLoad ==
    \/ \E uc \in BOOLEAN : LoadCall("p1", uc, NoSlot)
    \/ ClearCacheCall
    \/ RemoveFile("p1")
    \/ AddFile("p1")

SpecLoad == InitLoad /\ [][NextLoad]_vars

(***************************************************************************)
(* Merging two files of any contents.                                      *)
(***************************************************************************)
TablesOver(cols, rowSet) ==
    {MkTable(cols, rows) : rows \in UNION {[1 .. n -> rowSet] : n \in 0 .. MaxRows}}

MergeHeaders == {{"gene_symbol", "log2FoldChange"},
                 {"gene_symbol", "log2FoldChange", "padj"}}

MergeRows(cols) ==
    IF "padj" \in cols
    THEN [gene_symbol : {Str("A"), Missing}, log2FoldChange : {Num(1)}, padj : {Num(0)}]
    ELSE [gene_symbol : {Str("A"), Missing}, log2FoldChange : {Num(1), Num(2)}]

InitMerge ==
    /\ \E h1 \in MergeHeaders, h2 \in MergeHeaders :
       \E f1 \in TablesOver(h1, MergeRows(h1)), f2 \in TablesOver(h2, MergeRows(h2)) :
          fileContent = [TheDirectory EXCEPT !["p1"] = f1, !["p2"] = f2]
    /\ exists = [p \in Paths |-> TRUE]
    /\ Started
    /\ Unscanned

NextMerge == \E a \in {"p1", "p2"}, b \in {"p1", "p2"} : a # b /\ MergeCall(a, b)

SpecMerge == InitMerge /\ [][NextMerge]_vars

(***************************************************************************)
(* Extracting the DEGs of one file of any contents.                        *)
(***************************************************************************)
DegGenes == {Str("A"), Missing}
DegFoldChanges == {Num(-2), Num(1), PosInf}
DegPValues == {Num(0), Num(1), Missing}

DegHeaders == {{"gene_symbol", "log2FoldChange"} \cup optional :
                  optional \in SUBSET {"padj", "pvalue"}}

DegRows(cols) ==
    IF {"padj", "pvalue"} \subseteq cols
    THEN [gene_symbol : DegGenes, log2FoldChange : DegFoldChanges,
          padj : DegPValues, pvalue : {Num(0), Missing}]
    ELSE IF "padj" \in cols
    THEN [gene_symbol : DegGenes, log2FoldChange : DegFoldChanges, padj : DegPValues]
    ELSE IF "pvalue" \in cols
    THEN [gene_symbol : DegGenes, log2FoldChange : DegFoldChanges, pvalue : DegPValues]
    ELSE [gene_symbol : DegGenes, log2FoldChange : DegFoldChanges]

InitDegs ==
    /\ \E h \in DegHeaders : \E f \in TablesOver(h, DegRows(h)) :
          fileContent = [TheDirectory EXCEPT !["p1"] = f]
    /\ exists = [p \in Paths |-> TRUE]
    /\ Started
    /\ Unscanned

NextDegs == \E pt \in {1, 2} : ExtractCall("p1", pt, 1)

SpecDegs == InitDegs /\ [][NextDegs]_vars

(***************************************************************************)
(* The Venn tab over three files of any DEG sets.                          *)
(***************************************************************************)
VennGenes == <<"A", "B", "C", "D">>

\* the file that lists the genes of a set, one row each, every row passing
\* the thresholds 1, 1: the DEG set of the file is the set
VennFile(genes) ==
    MkTable({"gene_symbol", "log2FoldChange", "padj"},
            SelectSeq([k \in 1 .. Len(VennGenes) |->
                          [gene_symbol |-> Str(VennGenes[k]),
                           log2FoldChange |-> Num(2), padj |-> Num(0)]],
                      LAMBDA row : row["gene_symbol"].s \in genes))

VennSets ==
    {genes \in SUBSET {VennGenes[k] : k \in 1 .. Len(VennGenes)} :
        Cardinality(genes) <= MaxRows}

InitVenn ==
    /\ \E g1 \in VennSets, g2 \in VennSets, g3 \in VennSets :
          fileContent = [TheDirectory EXCEPT !["p1"] = VennFile(g1),
                                             !["p2"] = VennFile(g2),
                                             !["p3"] = VennFile(g3)]
    /\ exists = [p \in Paths |-> TRUE]
    /\ Started
    /\ Unscanned

NextVenn ==
    \/ update_venn_diagram(2, "p1", "p2", 1, 1, NoPath)
    \/ update_venn_diagram(3, "p1", "p2", 1, 1, "p3")

SpecVenn == InitVenn /\ [][NextVenn]_vars

\* line 81: the longest display name
MaxDisplay == 55

\* app.py line 47: the longest name in a dropdown label
MaxLabel == 45

(***************************************************************************)
(* Texts.                                                                  *)
(***************************************************************************)
DOT_TSV == <<".", "t", "s", "v">>
UNDERSCORE_RESULTS == <<"_", "r", "e", "s", "u", "l", "t", "s">>
UNDERSCORE_VS == <<"_", "v", "s", "_">>
SPACE_VS == <<" ", "v", "s", " ">>
DATE == <<"2", "0", "2", "4", "0", "1", "0", "1">>
YEAR == <<"2", "0", "2", "4">>
LONG27 == [k \in 1 .. 27 |-> "x"]
LONG28 == [k \in 1 .. 28 |-> "x"]
A_TSV == <<"a", ".", "t", "s", "v">>
A_B_TSV == <<"a", "-", "b", ".", "t", "s", "v">>
C_TXT == <<"c", ".", "t", "x", "t">>
SCENARIO_FILE == <<"2", "0", "2", "4", "0", "1", "0", "1", "_", "t", "r", "e", "a", "t", "e", "d", "_", "v", "s", "_", "c", "o", "n", "t", "r", "o", "l", "_", "r", "e", "s", "u", "l", "t", "s", ".", "t", "s", "v">>
SCENARIO_NAME == <<"2", "0", "2", "4", "-", "0", "1", "-", "0", "1", ":", " ", "t", "r", "e", "a", "t", "e", "d", " ", "v", "s", " ", "c", "o", "n", "t", "r", "o", "l">>
SCENARIO_LABEL == <<"t", "r", "e", "a", "t", "e", "d", "_", "v", "s", "_", "c", "o", "n", "t", "r", "o", "l">>

(***************************************************************************)
(* The file catalog, utils.py discover_deseq2_files.  Names are sequences  *)
(* of characters.                                                          *)
(***************************************************************************)
\* the characters of the names, in code-point order
Alphabet == <<" ", "-", ".", "0", "1", "2", "4", ":", "_", "a", "c", "d", "e",
              "l", "n", "o", "r", "s", "t", "u", "v", "x">>

Code(ch) == CHOOSE k \in 1 .. Len(Alphabet) : Alphabet[k] = ch

\* s < t as Python compares two str
LexLt(s, t) ==
    \E k \in 1 .. (Len(s) + 1) :
        /\ k <= Len(t)
        /\ \A j \in 1 .. (k - 1) : s[j] = t[j]
        /\ (k = Len(s) + 1 \/ Code(s[k]) < Code(t[k]))

\* the files of one directory taken in any one order
RECURSIVE unsorted(_)
unsorted(names) ==
    IF names = {} THEN <<>>
    ELSE LET first == CHOOSE x \in names : \A y \in names \ {x} : LexLt(y, x)
         IN  <<first>> \o unsorted(names \ {first})

\* sorted(...) of the files of one directory
RECURSIVE sorted(_)
sorted(names) ==
    IF names = {} THEN <<>>
    ELSE LET first == CHOOSE x \in names : \A y \in names \ {x} : LexLt(x, y)
         IN  <<first>> \o sorted(names \ {first})

endswith(s, suffix) ==
    Len(s) >= Len(suffix) /\ SubSeq(s, Len(s) - Len(suffix) + 1, Len(s)) = suffix

\* glob("*.tsv") of a directory
glob_tsv(names) == {x \in names : endswith(x, DOT_TSV)}

\* the index of the last ch of s, 0 if there is none
rfind(s, ch) ==
    IF \E k \in 1 .. Len(s) : s[k] = ch
    THEN CHOOSE k \in 1 .. Len(s) : s[k] = ch /\ \A j \in (k + 1) .. Len(s) : s[j] # ch
    ELSE 0

\* Path.stem: the name without its last suffix
stem(filename) ==
    LET i == rfind(filename, ".")
    IN  IF 1 < i /\ i < Len(filename) THEN SubSeq(filename, 1, i - 1) ELSE filename

\* os.path.splitext(filename)[0]
splitext(filename) ==
    LET i == rfind(filename, ".")
    IN  IF 1 < i THEN SubSeq(filename, 1, i - 1) ELSE filename

\* str.find(sub) as an index from 1, 0 if sub does not occur
find(s, sub) ==
    IF contains(s, sub)
    THEN CHOOSE k \in 1 .. (Len(s) - Len(sub) + 1) :
            /\ SubSeq(s, k, k + Len(sub) - 1) = sub
            /\ \A j \in 1 .. (k - 1) : SubSeq(s, j, j + Len(sub) - 1) # sub
    ELSE 0

\* str.replace(old, new), old not empty: the occurrences from the left,
\* none overlapping the one before
RECURSIVE replace(_, _, _)
replace(s, old, new) ==
    IF find(s, old) = 0 THEN s
    ELSE SubSeq(s, 1, find(s, old) - 1) \o new
            \o replace(SubSeq(s, find(s, old) + Len(old), Len(s)), old, new)

\* str.split("_", 1)
split_once(s) ==
    IF \E k \in 1 .. Len(s) : s[k] = "_"
    THEN LET i == CHOOSE k \in 1 .. Len(s) : s[k] = "_" /\ \A j \in 1 .. (k - 1) : s[j] # "_"
         IN  <<SubSeq(s, 1, i - 1), SubSeq(s, i + 1, Len(s))>>
    ELSE <<s>>

isdigit(s) ==
    s # <<>> /\ \A k \in 1 .. Len(s) : s[k] \in {"0", "1", "2", "3", "4", "5", "6", "7", "8", "9"}

\* lines 57-58
without_results(name) ==
    IF contains(name, UNDERSCORE_RESULTS) THEN replace(name, UNDERSCORE_RESULTS, <<>>) ELSE name

\* lines 60-79: the name before it is cut
derived_name(name) ==
    LET name1 == without_results(name)
        parts == split_once(name1)
        dated == Len(parts) > 1 /\ isdigit(parts[1]) /\ Len(parts[1]) = 8
        date_str == parts[1]
        date_formatted == SubSeq(date_str, 1, 4) \o <<"-">> \o SubSeq(date_str, 5, 6)
                            \o <<"-">> \o SubSeq(date_str, 7, 8)
        name2 == IF dated THEN parts[2] ELSE name1
        name3 == replace(name2, UNDERSCORE_VS, SPACE_VS)
        name4 == replace(name3, <<"_">>, <<" ">>)
    IN  IF dated THEN date_formatted \o <<":", " ">> \o name4 ELSE name4

\* lines 81-83 with the cut after the limit
truncate_late(name) ==
    IF Len(name) > MaxDisplay THEN SubSeq(name, 1, MaxDisplay) \o <<".", ".", ".">> ELSE name

\* lines 81-83
truncate(name) ==
    IF Len(name) > MaxDisplay
    THEN SubSeq(name, 1, MaxDisplay - 3) \o <<".", ".", ".">> ELSE name

\* lines 55-85
clean_display_name(name) == truncate(derived_name(name))

\* the stem, with nothing removed
get_file_display_name_stem(file_path) == splitext(file_path.file)

\* lines 182-191
get_file_display_name(file_path) ==
    LET filename == file_path.file
        name == splitext(filename)
        parts == split_once(name)
    IN  IF contains(name, UNDERSCORE_RESULTS) /\ Len(parts) > 1
        THEN replace(parts[2], UNDERSCORE_RESULTS, <<>>)
        ELSE name

\* lines 23-40: data/deseq2_results if it exists, else the sibling layout
get_deseq2_results_dir(tr) ==
    IF tr.data.exists THEN [root |-> "data", dir |-> tr.data]
    ELSE [root |-> "analysis_results", dir |-> tr.fallback]

Entry(root, category, filename) ==
    [file_path |-> [root |-> root, category |-> category, file |-> filename],
     category |-> category,
     display_name |-> clean_display_name(stem(filename))]

\* a scan that gives up when the results directory has no such subdirectory
ScanOrNothing(results_dir, category) ==
    IF results_dir.dir.primary.exists /\ results_dir.dir.secondary.exists
    THEN LET names == sorted(glob_tsv(results_dir.dir[category].files))
         IN  [k \in 1 .. Len(names) |-> Entry(results_dir.root, category, names[k])]
    ELSE <<>>

\* lines 87-93 and 95-101: one subdirectory
Scan(results_dir, category) ==
    IF results_dir.dir[category].exists
    THEN LET names == sorted(glob_tsv(results_dir.dir[category].files))
         IN  [k \in 1 .. Len(names) |-> Entry(results_dir.root, category, names[k])]
    ELSE <<>>

\* lines 43-103
discover_deseq2_files(tr) ==
    Scan(get_deseq2_results_dir(tr), "primary")
        \o Scan(get_deseq2_results_dir(tr), "secondary")

DataUnchanged ==
    UNCHANGED <<fileContent, exists, heap, _data_cache, held, stored, firstRet, last, data_store, calls>>

\* app.py lines 43-48: the label of an entry, its name cut at 45
OptionLabel(entry) ==
    <<"[", IF entry.category = "primary" THEN "P" ELSE "S", "]", " ">>
        \o (IF Len(entry.display_name) <= MaxLabel THEN entry.display_name
            ELSE SubSeq(entry.display_name, 1, MaxLabel - 3) \o <<".", ".", ".">>)

\* app.py lines 42-49
FileOptions(files) ==
    [k \in 1 .. Len(files) |-> [label |-> OptionLabel(files[k]), value |-> files[k].file_path]]

\* app.py lines 39-49, run when the module is imported
DiscoverCall ==
    /\ available_files' = Some(discover_deseq2_files(tree))
    /\ file_options' = Some(FileOptions(discover_deseq2_files(tree)))
    /\ UNCHANGED <<tree, offered, shown>>
    /\ DataUnchanged

\* app.py line 1096: the label of a file of the catalog
DisplayNameCall ==
    /\ available_files # None
    /\ \E k \in 1 .. Len(available_files[1]) :
          shown' = [file_path |-> available_files[1][k].file_path,
                    name |-> get_file_display_name(available_files[1][k].file_path)]
    /\ UNCHANGED <<tree, available_files, file_options, offered>>
    /\ DataUnchanged

NextCatalog == DiscoverCall \/ DisplayNameCall

LoaderIdle ==
    /\ fileContent = TheDirectory
    /\ exists = [p \in Paths |-> TRUE]
    /\ Started

(***************************************************************************)
(* The catalog of one file of any name.                                    *)
(***************************************************************************)
Segments == {DATE, YEAR, <<"_">>, UNDERSCORE_VS, UNDERSCORE_RESULTS, <<"a">>, LONG27, LONG28}

RECURSIVE Concat(_)
Concat(segs) == IF segs = <<>> THEN <<>> ELSE Head(segs) \o Concat(Tail(segs))

Stems ==
    {Concat(segs) : segs \in UNION {[1 .. n -> Segments] : n \in 1 .. MaxSegs}}
        \cup {stem(SCENARIO_FILE)}

OneFileTree(filename) ==
    [data |-> [exists |-> TRUE,
               primary |-> [exists |-> TRUE, files |-> {filename}],
               secondary |-> NoDir],
     fallback |-> NoResultsDir]

InitNames ==
    /\ \E name \in Stems : tree = OneFileTree(name \o DOT_TSV)
    /\ available_files = None
    /\ file_options = None
    /\ offered = NoOffer
    /\ shown = NoShown
    /\ LoaderIdle

SpecNames == InitNames /\ [][NextCatalog]_vars

(***************************************************************************)
(* The catalog of any directories.                                         *)
(***************************************************************************)
FileNames == {A_TSV, A_B_TSV, C_TXT}

Dirs == {NoDir} \cup [exists : {TRUE}, files : SUBSET FileNames]

ResultsDirs == {NoResultsDir} \cup [exists : {TRUE}, primary : Dirs, secondary : Dirs]

InitCatalog ==
    /\ tree \in [data : ResultsDirs, fallback : ResultsDirs]
    /\ available_files = None
    /\ file_options = None
    /\ offered = NoOffer
    /\ shown = NoShown
    /\ LoaderIdle

SpecCatalog == InitCatalog /\ [][NextCatalog]_vars

(***************************************************************************)
(* The dropdowns of the running dashboard: the module is imported once,    *)
(* then tabs are opened and the third Venn dropdown is shown or hidden     *)
(* while files are added to and removed from the scanned directories.      *)
(***************************************************************************)
\* dcc.Dropdown(options=file_options, value=file_options[k]["value"] if
\* len(file_options) > k else None)
Dropdown(id, options, k) ==
    [id |-> id, options |-> options,
     value |-> IF Len(options) > k THEN Some(options[k + 1].value) ELSE None]

Serve(by, children) ==
    /\ file_options # None
    /\ offered' = [by |-> by, children |-> children]
    /\ UNCHANGED <<tree, available_files, file_options, shown>>
    /\ DataUnchanged

\* the third dropdown filled from a scan made when it is shown
update_venn_comp3_container_rescan(n_comparisons) ==
    Serve("update_venn_comp3_container",
          IF n_comparisons = 3
          THEN <<Dropdown("venn-comp3-dropdown", FileOptions(discover_deseq2_files(tree)), 2)>>
          ELSE <<>>)

\* app.py lines 1027-1043
update_venn_comp3_container(n_comparisons) ==
    Serve("update_venn_comp3_container",
          IF n_comparisons = 3
          THEN <<Dropdown("venn-comp3-dropdown", file_options[1], 2)>>
          ELSE <<>>)

\* app.py lines 497-509 with create_volcano_tab, create_scatter_tab and
\* create_venn_tab: the dropdowns of the tab that is opened
update_tab_content(active_tab) ==
    Serve("update_tab_content",
          CASE active_tab = "volcano-tab" ->
                 <<Dropdown("volcano-file-dropdown", file_options[1], 0)>>
            [] active_tab = "scatter-tab" ->
                 <<Dropdown("scatter-x-dropdown", file_options[1], 0),
                   Dropdown("scatter-y-dropdown", file_options[1], 1)>>
            [] active_tab = "venn-tab" ->
                 <<Dropdown("venn-comp1-dropdown", file_options[1], 0),
                   Dropdown("venn-comp2-dropdown", file_options[1], 1)>>
            [] OTHER -> <<>>)

\* a file appears in or disappears from a subdirectory of the results
\* directory that is scanned
WithFiles(tr, category, files) ==
    IF tr.data.exists
    THEN [tr EXCEPT !.data[category].files = files]
    ELSE [tr EXCEPT !.fallback[category].files = files]

TreeChange(category, filename) ==
    /\ available_files # None
    /\ get_deseq2_results_dir(tree).dir[category].exists
    /\ \E files \in {get_deseq2_results_dir(tree).dir[category].files} :
          tree' = WithFiles(tree, category,
                            IF filename \in files THEN files \ {filename}
                            ELSE files \cup {filename})
    /\ UNCHANGED <<available_files, file_options, offered, shown>>
    /\ DataUnchanged

Startup == available_files = None /\ DiscoverCall

NextStartup ==
    \/ Startup
    \/ \E active_tab \in {"volcano-tab", "scatter-tab", "venn-tab"} : update_tab_content(active_tab)
    \/ \E n \in {2, 3} : update_venn_comp3_container(n)
    \/ \E category \in {"primary", "secondary"}, filename \in FileNames :
          TreeChange(category, filename)

InitStartup ==
    /\ tree \in [data : [exists : {TRUE}, primary : Dirs, secondary : Dirs],
                 fallback : {NoResultsDir}]
    /\ available_files = None
    /\ file_options = None
    /\ offered = NoOffer
    /\ shown = NoShown
    /\ LoaderIdle

SpecStartup == InitStartup /\ [][NextStartup]_vars

(***************************************************************************)
(* The volcano tab and the DEG extractor over one file of any contents.    *)
(***************************************************************************)
VolcanoHeaders == {AllCols, AllCols \ {"padj"}, AllCols \ {"padj", "pvalue"}}

VolcanoFoldChanges == {Num(-2), Num(0), Num(1)}

\* the fold-change slider starts at 0 (app.py line 125); 1 is its default
VolcanoThresholds == {0, 1}

VolcanoRows(cols) ==
    IF "padj" \in cols
    THEN [gene_symbol : DegGenes, log2FoldChange : VolcanoFoldChanges, baseMean : {Num(5)},
          pvalue : {Num(0)}, padj : DegPValues]
    ELSE IF "pvalue" \in cols
    THEN [gene_symbol : DegGenes, log2FoldChange : VolcanoFoldChanges, baseMean : {Num(5)},
          pvalue : DegPValues]
    ELSE [gene_symbol : DegGenes, log2FoldChange : VolcanoFoldChanges, baseMean : {Num(5)}]

InitVolcano ==
    /\ \E h \in VolcanoHeaders : \E f \in TablesOver(h, VolcanoRows(h)) :
          fileContent = [TheDirectory EXCEPT !["p1"] = f]
    /\ exists = [p \in Paths |-> TRUE]
    /\ Started
    /\ Unscanned

NextVolcano ==
    \/ \E lt \in VolcanoThresholds : update_volcano_plot("p1", 1, lt, "")
    \/ ExtractCall("p1", 1, 1)

SpecVolcano == InitVolcano /\ [][NextVolcano]_vars

(***************************************************************************)
(* The export buttons of the volcano and scatter tabs, app.py              *)
(* export_volcano_data and export_scatter_data.                            *)
(***************************************************************************)
\* "if data:" on the contents of a store: None and the empty list are false
truthy(data) == data # None /\ data[1] # <<>>

\* pd.DataFrame(data) of a list of records: the columns are their keys
pd_DataFrame(records) ==
    MkTable(UNION {DOMAIN records[i] : i \in 1 .. Len(records)}, records)

\* the export callback of a tab: the file sent to the browser, or nothing
Export(op, data) ==
    /\ last' = UIRecord(op, NoPath, NoPath, NoPath, 0, "", 0, 0,
                        IF truthy(data) THEN "file" ELSE "none", "",
                        IF truthy(data) THEN pd_DataFrame(data[1]) ELSE NoTable,
                        NoOverlaps, <<>>)
    /\ UNCHANGED <<calls, tree, available_files, file_options, offered, data_store, shown, fileContent, exists, heap, _data_cache, held, stored, firstRet>>

\* app.py lines 790-795
export_volcano_data == Export("export_volcano", data_store["volcano"])

\* app.py lines 1015-1020
export_scatter_data == Export("export_scatter", data_store["scatter"])

\* two complete files, one without the fold change, and search terms that
\* match every gene or none
InitExport ==
    /\ fileContent = [TheDirectory EXCEPT !["p1"] = SampleFile(AllCols, MaxRows),
                                          !["p2"] = SampleFile(AllCols, MaxRows)]
    /\ exists \in {e \in [Paths -> BOOLEAN] : \A p \in Paths \ Volatile : e[p]}
    /\ Started
    /\ Unscanned

NextExport ==
    \/ \E fp \in {NoPath, "p1", "p3"}, gs \in {"", "B"} : update_volcano_plot(fp, 1, 1, gs)
    \/ \E fp1 \in {NoPath, "p1"}, fp2 \in Paths, sig_filter \in BOOLEAN, gs \in {"", "B"} :
          update_scatter_plot(fp1, fp2, sig_filter, Some(1), gs)
    \/ export_volcano_data
    \/ export_scatter_data
    \/ RemoveFile("p1")
    \/ AddFile("p1")

SpecExport == InitExport /\ [][NextExport]_vars

(***************************************************************************)
(* The dashboard process with the cache cleared now and then: the update   *)
(* callbacks, a call of clear_cache from outside them, and the files       *)
(* coming and going.                                                       *)
(***************************************************************************)
NextLife ==
    \/ \E fp \in Paths : update_volcano_plot(fp, 1, 1, "")
    \/ \E fp1 \in Paths, fp2 \in Paths : update_scatter_plot(fp1, fp2, FALSE, Some(1), "")
    \/ \E fp1 \in Paths, fp2 \in Paths : update_venn_diagram(2, fp1, fp2, 1, 1, NoPath)
    \/ ClearCacheCall
    \/ \E p \in Volatile : RemoveFile(p)
    \/ \E p \in Volatile : AddFile(p)

SpecLife == Init /\ [][NextLife]_vars

(***************************************************************************)
(* Load calls of several threads of one process, utils.py                  *)
(* load_deseq2_file: a thread runs the statements of its call one at a     *)
(* time, and any other thread may run between two of them.  A frame being  *)
(* built by copy() has its header first and its rows later, and only the   *)
(* thread building it has a reference to it.                               *)
(***************************************************************************)
\* line 120: return _data_cache[file_path].copy()
HitOrder == <<"get", "alloc", "fill", "return">>

\* the entry is assigned when the copy is begun, not when it is finished
MissOrderPublishEarly == <<"exists", "read", "sanitize", "alloc", "assign", "fill", "return">>

\* lines 123-147 with use_cache: the right-hand side df.copy() of line 145
\* is evaluated before the entry is assigned
MissOrder == <<"exists", "read", "sanitize", "alloc", "fill", "assign", "return">>

\* lines 123-147 without use_cache
BypassOrder == <<"exists", "read", "sanitize", "return">>

Program(th) == IF th.hit THEN HitOrder ELSE IF th.use_cache THEN MissOrder ELSE BypassOrder

Running(t) == calls[t].kind = "running"

\* the statement thread t is about to run
At(t, stmt) == Running(t) /\ calls[t].pc >= 1 /\ Program(calls[t])[calls[t].pc] = stmt

ThreadRefs(cls) == UNION {{cls[t].df, cls[t].src, cls[t].cp} : t \in Threads}

\* the objects the cache or a running call still refers to
Reachable(hp, cch, cls) ==
    [i \in (DOMAIN hp \cap (({cch[p] : p \in Paths} \cup ThreadRefs(cls)) \ {NoRef})) |-> hp[i]]

\* the state after a statement of thread t
Step(t, th, hp, cch) ==
    /\ calls' = [calls EXCEPT ![t] = th]
    /\ _data_cache' = cch
    /\ heap' = Reachable(hp, cch, [calls EXCEPT ![t] = th])
    /\ UNCHANGED <<fileContent, exists, held, stored, firstRet, last, tree,
                   available_files, file_options, offered, data_store, shown>>

Advance(th) == [th EXCEPT !.pc = @ + 1]

\* the call ends: its locals are gone
Ended(th, kind, ret) ==
    [th EXCEPT !.kind = kind, !.ret = ret, !.df = NoRef, !.src = NoRef, !.cp = NoRef]

\* a thread enters load_deseq2_file
BeginLoad(t, file_path, use_cache) ==
    /\ ~Running(t)
    /\ Step(t, [NoLoadCall EXCEPT !.file_path = file_path, !.use_cache = use_cache,
                                  !.kind = "running"],
            heap, _data_cache)

\* line 119: use_cache and file_path in _data_cache
TestCache(t) ==
    /\ Running(t) /\ calls[t].pc = 0
    /\ Step(t, [calls[t] EXCEPT !.pc = 1,
                                !.hit = calls[t].use_cache /\ _data_cache[calls[t].file_path] # NoRef],
            heap, _data_cache)

\* line 120, the subscript: _data_cache[file_path]
GetEntry(t) ==
    /\ At(t, "get")
    /\ Step(t, IF _data_cache[calls[t].file_path] = NoRef
               THEN Ended(calls[t], "KeyError", NoTable)
               ELSE [Advance(calls[t]) EXCEPT !.src = _data_cache[calls[t].file_path]],
            heap, _data_cache)

\* lines 123-124
CheckExists(t) ==
    /\ At(t, "exists")
    /\ Step(t, IF os_path_exists(calls[t].file_path) THEN Advance(calls[t])
               ELSE Ended(calls[t], "NotFound", NoTable),
            heap, _data_cache)

\* lines 126-132: read_csv into a new frame, and the required columns
ReadCsv(t) ==
    /\ At(t, "read")
    /\ IF missing_cols(fileContent[calls[t].file_path]) # {}
       THEN Step(t, Ended(calls[t], "SchemaError", NoTable), heap, _data_cache)
       ELSE Step(t, [Advance(calls[t]) EXCEPT !.df = NewRef(heap)],
                 heap @@ (NewRef(heap) :> fileContent[calls[t].file_path]), _data_cache)

\* lines 134-141, on the frame of the thread
SanitizeFrame(t) ==
    /\ At(t, "sanitize")
    /\ Step(t, Advance(calls[t]), [heap EXCEPT ![calls[t].df] = ParseFile(@)], _data_cache)

\* the frame copy() is called on: the entry on a hit, df on a miss
CopySource(th) == IF th.hit THEN th.src ELSE th.df

\* copy() begins: a new frame with the header and no rows yet
CopyBegin(t) ==
    /\ At(t, "alloc")
    /\ Step(t, [Advance(calls[t]) EXCEPT !.cp = NewRef(heap)],
            heap @@ (NewRef(heap) :> MkTable(heap[CopySource(calls[t])].cols, <<>>)),
            _data_cache)

\* copy() ends: the rows are there
CopyEnd(t) ==
    /\ At(t, "fill")
    /\ Step(t, Advance(calls[t]),
            [heap EXCEPT ![calls[t].cp] = heap[CopySource(calls[t])]], _data_cache)

\* line 145: _data_cache[file_path] = <the copy>
AssignEntry(t) ==
    /\ At(t, "assign")
    /\ Step(t, Advance(calls[t]), heap,
            [_data_cache EXCEPT ![calls[t].file_path] = calls[t].cp])

\* lines 120 and 147: return the copy of the entry, or df
ReturnFrame(t) ==
    /\ At(t, "return")
    /\ Step(t, Ended(calls[t], "ok",
                     heap[IF calls[t].hit THEN calls[t].cp ELSE calls[t].df]),
            heap, _data_cache)

NextThreads ==
    \/ \E t \in Threads, fp \in Paths, uc \in BOOLEAN : BeginLoad(t, fp, uc)
    \/ \E t \in Threads : TestCache(t)
    \/ \E t \in Threads : GetEntry(t)
    \/ \E t \in Threads : CheckExists(t)
    \/ \E t \in Threads : ReadCsv(t)
    \/ \E t \in Threads : SanitizeFrame(t)
    \/ \E t \in Threads : CopyBegin(t)
    \/ \E t \in Threads : CopyEnd(t)
    \/ \E t \in Threads : AssignEntry(t)
    \/ \E t \in Threads : ReturnFrame(t)

\* the file without the fold change is on disk, the complete one may be absent
InitThreads == Init /\ exists["p3"]

SpecThreads == InitThreads /\ [][NextThreads]_vars

(***************************************************************************)
(* Claims about the loader and its cache.                                  *)
(***************************************************************************)
Attempts == {last.loads[i] : i \in 1 .. Len(last.loads)}

\* C1: every successful load of a path returns, field for field, the table
\* the first successful load of that path returned, whatever was done in
\* between to the tables handed out earlier.
LoadTwiceIdentical ==
    \A e \in Attempts : e.kind = "ok" => e.value = firstRet[e.path]

\* a load served from the cache has returned while the client still holds the
\* table of an earlier load of the same path, with columns added to it
LoadAfterMutationReached ==
    /\ last.op = "load" /\ last.kind = "ok" /\ last.loads[1].hit
    /\ \E sl \in Slots :
          /\ held[sl].path = last.a
          /\ "significant" \in heap[held[sl].ref].cols

\* C2: a cached table never changes: the frame the cache holds for a path
\* equals the value it was stored with, after any sequence of interface calls
\* and callbacks, and no load hands the cached object itself to its caller.
CacheImmutable ==
    /\ \A p \in Paths : _data_cache[p] # NoRef => heap[_data_cache[p]] = stored[p]
    /\ \A e \in Attempts : ~e.aliased

\* the volcano callback has loaded a path on a cache miss and assigned its
\* derived columns to the frame load returned, and the path is cached
VolcanoAfterMissReached ==
    /\ last.op = "volcano" /\ last.kind = "ok" /\ last.gene_search = ""
    /\ ~last.loads[1].hit
    /\ "significant" \in last.table.cols
    /\ _data_cache[last.a] # NoRef

\* C3 as stated: a load of a path that is not on disk ends with NotFound, in
\* every state of the cache.
NotFoundWheneverAbsent ==
    \A e \in Attempts : ~e.existed => e.kind = "NotFound"

\* C3 amended: a load of a path that is not on disk ends with NotFound unless
\* the cache serves it; a path the cache serves is returned without looking
\* at the disk.
NotFoundUnlessCached ==
    \A e \in Attempts :
        /\ (~e.existed /\ ~e.hit) => e.kind = "NotFound"
        /\ e.hit => e.kind = "ok"

\* a load of a path that is not on disk and not served by the cache has failed
AbsentLoadReached ==
    /\ last.op = "load" /\ last.kind = "NotFound"
    /\ ~last.loads[1].existed /\ ~last.loads[1].hit

\* C8: merge and extract_degs load their paths in order, stop at the first
\* load that fails, end with exactly that failure and return nothing then;
\* they return a result only when every input path loaded.
FailurePropagates ==
    last.op \in {"merge", "extract_degs"} =>
        LET n == Len(last.loads)
        IN  /\ n >= 1 /\ last.loads[1].path = last.a
            /\ \A i \in 1 .. (n - 1) : last.loads[i].kind = "ok"
            /\ last.kind = last.loads[n].kind
            /\ last.kind \in {"ok", "NotFound", "SchemaError"}
            /\ last.kind # "ok" => last.table = NoTable /\ last.degs = {}
            /\ (last.op = "merge" /\ last.kind = "ok") =>
                  n = 2 /\ last.loads[2].path = last.b /\ last.table # NoTable

\* a merge whose second path failed to load after the first had loaded
MergeFailureReached ==
    /\ last.op = "merge" /\ Len(last.loads) = 2
    /\ last.loads[2].kind = "SchemaError" /\ last.kind = "SchemaError"

\* C4: a load that reads an existing file fails with SchemaError, and returns
\* no table, when the header lacks the gene identifier or the fold change,
\* and succeeds when the header has both, whatever else it lacks.
SchemaChecked ==
    \A e \in Attempts :
        e.existed =>
            /\ ~({"gene_symbol", "log2FoldChange"} \subseteq fileContent[e.path].cols) =>
                  e.kind = "SchemaError" /\ e.value = NoTable
            /\ {"gene_symbol", "log2FoldChange"} \subseteq fileContent[e.path].cols =>
                  e.kind = "ok" /\ e.value.cols = fileContent[e.path].cols

\* an existing file with every column but the gene identifier has been
\* refused
HeaderRefusedReached ==
    /\ last.op = "load" /\ last.kind = "SchemaError" /\ last.loads[1].existed
    /\ fileContent[last.a].cols = AllCols \ {"gene_symbol"}

(***************************************************************************)
(* Claims about the merger.                                                *)
(***************************************************************************)
MergeDone == last.op = "merge" /\ last.kind = "ok"
Left == last.loads[1].value
Right == last.loads[2].value

Ids(t) == {str(t.rows[i]["gene_symbol"]) : i \in 1 .. Len(t.rows)}
UniqueIds(t) == Cardinality(Ids(t)) = Len(t.rows)
Min(x, y) == IF x <= y THEN x ELSE y

\* C5 as stated: the merged table has at most min(rows of A, rows of B) rows,
\* also when an identifier occurs on several rows.
MergeAtMostMin == MergeDone => len(last.table) <= Min(len(Left), len(Right))

\* C5 amended: the bound holds when no identifier occurs on more than one
\* row of A and none on more than one row of B.
MergeAtMostMinUnique ==
    (MergeDone /\ UniqueIds(Left) /\ UniqueIds(Right)) =>
        len(last.table) <= Min(len(Left), len(Right))

\* two tables of distinct identifiers, sharing one, have been merged
UniqueMergeReached ==
    /\ MergeDone /\ UniqueIds(Left) /\ UniqueIds(Right)
    /\ len(Left) = 2 /\ len(Right) >= 1 /\ len(last.table) >= 1

\* C6: the identifiers of the merged table are exactly those in both inputs.
MergeIsIntersection == MergeDone => Ids(last.table) = Ids(Left) \cap Ids(Right)

\* a merge has dropped an identifier only the first table has and kept a
\* shared one
MergeDroppedReached ==
    /\ MergeDone
    /\ Ids(Left) \ Ids(Right) # {}
    /\ Ids(last.table) # {}

\* the merged row with its _1 and _2 cells exchanged
Swapped(shared, m) ==
    [k \in DOMAIN m |->
        IF \E col \in shared : k = col \o "_1"
        THEN m[(CHOOSE col \in shared : k = col \o "_1") \o "_2"]
        ELSE IF \E col \in shared : k = col \o "_2"
        THEN m[(CHOOSE col \in shared : k = col \o "_2") \o "_1"]
        ELSE m[k]]

RowSet(t) == {t.rows[i] : i \in 1 .. Len(t.rows)}

\* C7: a column other than the identifier that both tables have appears as
\* col_1 with the first argument's value and col_2 with the second's, for a
\* pair of rows of that gene, every such pair giving a row; the other
\* columns keep their names; with the arguments exchanged the _1 and _2
\* values are exchanged.
SuffixesByPosition ==
    MergeDone =>
        LET shared == (Left.cols \cap Right.cols) \ {"gene_symbol"}
        IN  /\ last.table.cols =
                  {"gene_symbol"} \cup {col \o "_1" : col \in shared}
                                  \cup {col \o "_2" : col \in shared}
                                  \cup (Left.cols \ Right.cols)
                                  \cup (Right.cols \ Left.cols)
            /\ \A m \in RowSet(last.table) :
                  \E r1 \in RowSet(Left), r2 \in RowSet(Right) :
                      /\ r1["gene_symbol"] = m["gene_symbol"]
                      /\ r2["gene_symbol"] = m["gene_symbol"]
                      /\ \A col \in shared :
                            m[col \o "_1"] = r1[col] /\ m[col \o "_2"] = r2[col]
                      /\ \A col \in Left.cols \ Right.cols : m[col] = r1[col]
                      /\ \A col \in Right.cols \ Left.cols : m[col] = r2[col]
            /\ \A r1 \in RowSet(Left), r2 \in RowSet(Right) :
                  r1["gene_symbol"] = r2["gene_symbol"] =>
                      \E m \in RowSet(last.table) :
                          \A col \in shared :
                              m[col \o "_1"] = r1[col] /\ m[col \o "_2"] = r2[col]
            /\ {Swapped(shared, m) : m \in RowSet(last.table)}
                  = RowSet(pd_merge(Right, Left))

\* a merge of two tables that give one gene different fold changes
DifferentSidesReached ==
    /\ MergeDone /\ last.a # last.b
    /\ \E m \in RowSet(last.table) :
          m["log2FoldChange_1"] # m["log2FoldChange_2"]

(***************************************************************************)
(* Claims about the DEG extractor.                                         *)
(***************************************************************************)
ExtractDone == last.op = "extract_degs" /\ last.kind = "ok"
Loaded == last.loads[1].value

\* the significance value of a row: the adjusted value when the table has
\* the column, else the raw one
SigOf(t, row) ==
    IF "padj" \in t.cols THEN row["padj"]
    ELSE IF "pvalue" \in t.cols THEN row["pvalue"]
    ELSE Missing

\* C9: a gene is in the result only by a row whose significance value is
\* not at or above the threshold and whose |fold change| is not at or below
\* its threshold: a row with a value exactly at a threshold brings no gene in.
BoundaryExcluded ==
    ExtractDone =>
        \A g \in last.degs :
            \E row \in RowSet(Loaded) :
                /\ str(row["gene_symbol"]) = g
                /\ ~Ge(SigOf(Loaded, row), last.padj_threshold)
                /\ ~Le(Abs(row["log2FoldChange"]), last.lfc_threshold)

\* the only row of a gene has its significance value exactly at the
\* threshold and a large fold change, and another gene is in the result
AtThresholdReached ==
    /\ ExtractDone /\ last.degs # {}
    /\ \E row \in RowSet(Loaded) :
          /\ SigOf(Loaded, row) = Num(last.padj_threshold)
          /\ Gt(Abs(row["log2FoldChange"]), last.lfc_threshold)
          /\ str(row["gene_symbol"]) \notin last.degs

\* the rows that qualify by the rule of the claim, applied to column p_col
Qualifying(t, p_col) ==
    {row \in RowSet(t) :
        /\ IsNum(row[p_col]) /\ row[p_col].val < last.padj_threshold
        /\ IsNum(row["log2FoldChange"])
        /\ Abs(row["log2FoldChange"]).val > last.lfc_threshold}

\* C10: with an adjusted-significance column the result is the genes of the
\* rows whose adjusted value and fold change are present and pass; with only
\* a raw column the same on the raw value; with neither it is empty.  (The
\* missing-identifier marker is left out of the comparison.)
ColumnByPresence ==
    ExtractDone =>
        last.degs \ {"nan"} =
            {str(row["gene_symbol"]) :
                row \in IF "padj" \in Loaded.cols THEN Qualifying(Loaded, "padj")
                        ELSE IF "pvalue" \in Loaded.cols THEN Qualifying(Loaded, "pvalue")
                        ELSE {}} \ {"nan"}

\* a gene whose adjusted value is missing and whose raw value passes is not
\* in the result
RawNotConsultedReached ==
    /\ ExtractDone
    /\ {"padj", "pvalue"} \subseteq Loaded.cols
    /\ \E row \in RowSet(Loaded) :
          /\ row["padj"] = Missing /\ Lt(row["pvalue"], last.padj_threshold)
          /\ Gt(Abs(row["log2FoldChange"]), last.lfc_threshold)
          /\ str(row["gene_symbol"]) = "A" /\ "A" \notin last.degs

\* C11: the set extract_degs returns never holds the marker 'nan' of a
\* missing identifier.
NoMissingMarker == ExtractDone => "nan" \notin last.degs

\* a row without identifier passes both thresholds, next to a row that has one
MissingIdQualifiesReached ==
    /\ ExtractDone /\ last.degs # {}
    /\ "padj" \in Loaded.cols
    /\ \E row \in Qualifying(Loaded, "padj") : str(row["gene_symbol"]) = "nan"

(***************************************************************************)
(* Claims about the overlaps of the Venn tab.                              *)
(***************************************************************************)
VennDone(n) == last.op = "venn" /\ last.kind = "ok" /\ last.n = n

\* the DEG set of the i-th file the callback loaded
DegsOf(i) == DegsSet(DegsList(last.loads[i].value, last.padj_threshold,
                              last.lfc_threshold))

PairwiseDisjoint(regions) ==
    \A i \in 1 .. Len(regions), j \in 1 .. Len(regions) :
        i # j => regions[i] \cap regions[j] = {}

\* C12: for two DEG sets A and B the regions are only-A = A \ B,
\* only-B = B \ A and both = A \cap B; they are pairwise disjoint and their
\* union is A \cup B.
TwoWayPartition ==
    VennDone(2) =>
        LET o == last.overlaps
        IN  /\ o.only_1 = DegsOf(1) \ DegsOf(2)
            /\ o.only_2 = DegsOf(2) \ DegsOf(1)
            /\ o.overlap = DegsOf(1) \cap DegsOf(2)
            /\ PairwiseDisjoint(<<o.only_1, o.only_2, o.overlap>>)
            /\ o.only_1 \cup o.only_2 \cup o.overlap = DegsOf(1) \cup DegsOf(2)

\* a two-way overlap with a gene in each of the three regions
TwoWayAllRegionsReached ==
    /\ VennDone(2)
    /\ last.overlaps.only_1 # {} /\ last.overlaps.only_2 # {}
    /\ last.overlaps.overlap # {}

\* the region a gene belongs to by its membership in the three sets
RegionOf(g) ==
    LET in1 == g \in DegsOf(1)
        in2 == g \in DegsOf(2)
        in3 == g \in DegsOf(3)
    IN  CASE in1 /\ in2 /\ in3 -> "overlap_all"
          [] in1 /\ in2 /\ ~in3 -> "overlap_12"
          [] in1 /\ ~in2 /\ in3 -> "overlap_13"
          [] ~in1 /\ in2 /\ in3 -> "overlap_23"
          [] in1 /\ ~in2 /\ ~in3 -> "only_1"
          [] ~in1 /\ in2 /\ ~in3 -> "only_2"
          [] ~in1 /\ ~in2 /\ in3 -> "only_3"

RegionNames == {"only_1", "only_2", "only_3", "overlap_12", "overlap_13",
                "overlap_23", "overlap_all"}

\* C13: for three DEG sets the seven regions are pairwise disjoint, their
\* union is A \cup B \cup C, the triple region is A \cap B \cap C, and each
\* gene of the union is in exactly the region of its membership pattern.
ThreeWayPartition ==
    VennDone(3) =>
        LET o == last.overlaps
            all == DegsOf(1) \cup DegsOf(2) \cup DegsOf(3)
        IN  /\ \A r \in RegionNames, q \in RegionNames : r # q => o[r] \cap o[q] = {}
            /\ UNION {o[r] : r \in RegionNames} = all
            /\ o.overlap_all = DegsOf(1) \cap DegsOf(2) \cap DegsOf(3)
            /\ \A g \in all : \A r \in RegionNames : g \in o[r] <=> r = RegionOf(g)

\* a three-way overlap with a gene in all three sets and one in two only
ThreeWayMixedReached ==
    /\ VennDone(3)
    /\ last.overlaps.overlap_all # {}
    /\ last.overlaps.overlap_12 # {}

\* the selection of the Venn tab is not two or three distinct files
VennInvalid ==
    \/ last.n \notin {2, 3}
    \/ last.a = NoPath \/ last.b = NoPath
    \/ last.a = last.b
    \/ (last.n = 3 /\ (last.c = NoPath \/ last.c \in {last.a, last.b}))

\* C14: with fewer than two or more than three comparisons, a count that is
\* neither 2 nor 3, a missing third file or two equal files, the Venn
\* callback gives a warning and no overlap data and loads no file.
VennRejectsInvalid ==
    (last.op = "venn" /\ VennInvalid) =>
        /\ last.kind = "warning"
        /\ last.overlaps = NoOverlaps
        /\ last.loads = <<>>

(***************************************************************************)
(* Claims about the file catalog.                                          *)
(***************************************************************************)
Catalog == IF available_files = None THEN <<>> ELSE available_files[1]
Entries == {Catalog[k] : k \in 1 .. Len(Catalog)}

\* C15 as stated: the scenario file has the display name
\* "2024-01-01: treated vs control" in the catalog and from
\* get_file_display_name.
ScenarioNameBoth ==
    /\ \A e \in Entries :
          e.file_path.file = SCENARIO_FILE => e.display_name = SCENARIO_NAME
    /\ (shown # NoShown /\ shown.file_path.file = SCENARIO_FILE) =>
          shown.name = SCENARIO_NAME

\* C15 amended: the catalog gives the scenario file the display name
\* "2024-01-01: treated vs control"; get_file_display_name gives its path
\* "treated_vs_control".
ScenarioNameCatalog ==
    /\ \A e \in Entries :
          e.file_path.file = SCENARIO_FILE => e.display_name = SCENARIO_NAME
    /\ (shown # NoShown /\ shown.file_path.file = SCENARIO_FILE) =>
          shown.name = SCENARIO_LABEL

\* the scenario file is in the catalog and its label has been asked for
ScenarioShownReached ==
    /\ shown # NoShown /\ shown.file_path.file = SCENARIO_FILE
    /\ \E e \in Entries : e.file_path = shown.file_path

\* the derivation of the display name as the claim words it, before the cut
DerivedAsWorded(name) ==
    LET name1 == IF endswith(name, UNDERSCORE_RESULTS)
                 THEN SubSeq(name, 1, Len(name) - 8) ELSE name
        dated == /\ Len(name1) >= 9
                 /\ isdigit(SubSeq(name1, 1, 8))
                 /\ name1[9] = "_"
        rest == IF dated THEN SubSeq(name1, 10, Len(name1)) ELSE name1
        body == replace(replace(rest, UNDERSCORE_VS, SPACE_VS), <<"_">>, <<" ">>)
    IN  IF dated
        THEN SubSeq(name1, 1, 4) \o <<"-">> \o SubSeq(name1, 5, 6) \o <<"-">>
                \o SubSeq(name1, 7, 8) \o <<":", " ">> \o body
        ELSE body

\* C16: the display name of a catalog entry is derived from the file name
\* by removing only a trailing "_results", turning a leading 8-digit prefix
\* and its underscore into "YYYY-MM-DD: ", "_vs_" into " vs " and every
\* other underscore into a space (and then cut to the length limit).
NameDerivedAsWorded ==
    \A e \in Entries :
        e.display_name = truncate(DerivedAsWorded(stem(e.file_path.file)))

\* C17: a display name of the catalog has at most 55 characters; a derived
\* name of more than 55 is cut and ends with "...", one of 55 or fewer is
\* kept whole.
DisplayNameBounded ==
    \A e \in Entries :
        LET derived == derived_name(stem(e.file_path.file))
        IN  /\ Len(e.display_name) <= 55
            /\ Len(derived) > 55 =>
                  /\ endswith(e.display_name, <<".", ".", ".">>)
                  /\ SubSeq(e.display_name, 1, Len(e.display_name) - 3)
                        = SubSeq(derived, 1, Len(e.display_name) - 3)
            /\ Len(derived) <= 55 => e.display_name = derived

\* a derived name of 56 characters has been cut
JustTooLongReached ==
    \E e \in Entries :
        /\ Len(derived_name(stem(e.file_path.file))) = 56
        /\ Len(e.display_name) = 55

\* the results directory that is scanned
Scanned == IF tree.data.exists THEN tree.data ELSE tree.fallback

\* C18: primary entries come before secondary ones; within a category the
\* entries are in lexicographic order of file name; only .tsv files are
\* listed, each under the category of the subdirectory that holds it.
CatalogOrdered ==
    /\ \A i \in 1 .. Len(Catalog), j \in 1 .. Len(Catalog) :
          i < j =>
              /\ Catalog[i].category = "secondary" => Catalog[j].category = "secondary"
              /\ Catalog[i].category = Catalog[j].category =>
                    LexLt(Catalog[i].file_path.file, Catalog[j].file_path.file)
    /\ \A e \in Entries :
          /\ endswith(e.file_path.file, DOT_TSV)
          /\ e.category \in {"primary", "secondary"}
          /\ e.file_path.category = e.category
          /\ Scanned[e.category].exists
          /\ e.file_path.file \in Scanned[e.category].files

\* a catalog of two primary files and a secondary one, with a file of
\* another extension left out
CatalogMixedReached ==
    /\ Len(Catalog) = 3
    /\ Catalog[1].category = "primary" /\ Catalog[2].category = "primary"
    /\ Catalog[3].category = "secondary"
    /\ C_TXT \in Scanned.primary.files

\* C19: discover returns, for each category, the .tsv files of its
\* subdirectory when it exists and nothing when the subdirectory or the
\* results directory is absent; an absent directory takes nothing from the
\* other category.
MissingDirIsEmpty ==
    available_files # None =>
        \A category \in {"primary", "secondary"} :
            {e.file_path.file : e \in {x \in Entries : x.category = category}}
                = IF Scanned.exists /\ Scanned[category].exists
                  THEN {f \in Scanned[category].files : endswith(f, DOT_TSV)}
                  ELSE {}

\* the primary subdirectory is absent and the secondary files are listed
PrimaryAbsentReached ==
    /\ available_files # None
    /\ Scanned.exists /\ ~Scanned.primary.exists
    /\ Catalog # <<>>

(***************************************************************************)
(* Claims about the callbacks.                                             *)
(***************************************************************************)
\* C20: a callback always returns: with its result, or with a message and
\* no stored data.  A load that fails with NotFound or SchemaError and a
\* selection that is empty or repeats a file give a message and no data,
\* and the callbacks can be called again afterwards.
NothingEscapes ==
    last.op \in Callbacks =>
        /\ last.kind \in {"ok", "empty", "warning", "error"}
        /\ (\E e \in Attempts : e.kind # "ok") =>
              /\ last.kind = "error"
              /\ last.err \in {"NotFound", "SchemaError"}
        /\ (last.a = NoPath \/ (last.op # "volcano" /\ (last.b = NoPath \/ last.a = last.b)))
              => last.kind \in {"empty", "warning"}
        /\ last.kind # "ok" => last.table = NoTable /\ last.overlaps = NoOverlaps
        /\ ENABLED update_volcano_plot("p2", 1, 1, "")

\* the scatter callback has met a file without the fold change as its
\* second file
ScatterSchemaErrorReached ==
    /\ last.op = "scatter" /\ last.kind = "error" /\ last.err = "SchemaError"
    /\ Len(last.loads) = 2

(***************************************************************************)
(* Claims about the loaded values and the life of the cache.               *)
(***************************************************************************)
NumericCols(t) == t.cols \ {"gene_symbol"}

\* table t is the file with every infinite numeric cell made missing and
\* every other numeric cell kept
InfinityReplaced(t, file) ==
    /\ t.cols = file.cols /\ Len(t.rows) = Len(file.rows)
    /\ \A i \in 1 .. Len(t.rows) : \A col \in NumericCols(t) :
          /\ t.rows[i][col].kind # "inf"
          /\ file.rows[i][col].kind = "inf" => t.rows[i][col] = Missing
          /\ file.rows[i][col].kind # "inf" => t.rows[i][col] = file.rows[i][col]

\* C21: after a successful load no numeric field of the returned table or
\* of the cached table is +infinity or -infinity: every such value of the
\* file is the missing marker, and the finite values are those of the file.
NoInfinityAfterLoad ==
    /\ \A e \in Attempts : e.kind = "ok" => InfinityReplaced(e.value, fileContent[e.path])
    /\ \A p \in Paths :
          _data_cache[p] # NoRef => InfinityReplaced(heap[_data_cache[p]], fileContent[p])

\* a file with a +infinity and a -infinity cell has been read from disk and
\* cached
InfiniteFileLoadedReached ==
    /\ last.op = "load" /\ last.kind = "ok" /\ ~last.loads[1].hit
    /\ _data_cache[last.a] # NoRef
    /\ \E i \in 1 .. Len(fileContent[last.a].rows) :
          \E c1 \in NumericCols(fileContent[last.a]), c2 \in NumericCols(fileContent[last.a]) :
             /\ fileContent[last.a].rows[i][c1] = PosInf
             /\ fileContent[last.a].rows[i][c2] = NegInf

\* the step leaves every cache entry in place: the same object with the
\* same contents
EntriesKept ==
    \A p \in Paths :
        _data_cache[p] # NoRef =>
            /\ _data_cache'[p] = _data_cache[p]
            /\ heap'[_data_cache[p]] = heap[_data_cache[p]]

\* the loads of the step that the cache served were of paths cached before
\* the step or loaded earlier in it
HitsWereCached ==
    \A i \in 1 .. Len(last'.loads) :
        last'.loads[i].hit =>
            \/ _data_cache[last'.loads[i].path] # NoRef
            \/ \E j \in 1 .. (i - 1) :
                  /\ last'.loads[j].path = last'.loads[i].path
                  /\ last'.loads[j].kind = "ok" /\ ~last'.loads[j].hit

\* C22: a table is cached by the first successful load of its path and
\* stays: no callback removes or replaces a cache entry, so the set of
\* cached paths only grows; a call of clear_cache, which no callback makes,
\* empties the cache, and a load of a path that is not cached reads the file.
CachedForLifetime ==
    [][/\ last'.op \in Callbacks /\ last' # last => EntriesKept
       /\ ~ClearCacheCall => EntriesKept
       /\ ClearCacheCall => \A p \in Paths : _data_cache'[p] = NoRef
       /\ last' # last => HitsWereCached
       /\ \A i \in 1 .. Len(last'.loads) :
             last'.loads[i].kind = "ok" => _data_cache'[last'.loads[i].path] # NoRef]_vars

\* a callback has read from disk a path that was cached before the cache was
\* cleared
ReloadedAfterClearReached ==
    /\ last.op \in Callbacks /\ last.kind = "ok"
    /\ \E e \in Attempts :
          /\ e.kind = "ok" /\ ~e.hit
          /\ firstRet[e.path] # NoTable
          /\ stored[e.path] # NoTable
          /\ _data_cache[e.path] # NoRef
          /\ \E p \in Paths : firstRet[p] # NoTable /\ _data_cache[p] = NoRef

(***************************************************************************)
(* Claims about the life of the catalog.                                   *)
(***************************************************************************)
\* C23: the catalog is computed once, at start: from then on the catalog
\* and the options made of it stay as they are, and every dropdown served
\* offers exactly those options, whatever files are added to or removed
\* from the scanned directories.
CatalogFixedAtStart ==
    [][/\ available_files # None =>
             available_files' = available_files /\ file_options' = file_options
       /\ \A k \in 1 .. Len(offered'.children) :
             /\ offered'.children[k].options = file_options'[1]
             /\ offered'.children[k].options = FileOptions(available_files'[1])]_vars

\* the third Venn dropdown has been served while the scanned directories
\* hold a .tsv file the catalog lacks and lack one the catalog has
StaleDropdownReached ==
    /\ offered.by = "update_venn_comp3_container" /\ offered.children # <<>>
    /\ \E category \in {"primary", "secondary"} :
          \E f \in glob_tsv(Scanned[category].files) :
             \A e \in Entries : ~(e.category = category /\ e.file_path.file = f)
    /\ \E e \in Entries : e.file_path.file \notin Scanned[e.category].files

(***************************************************************************)
(* Claims about failed loads.                                              *)
(***************************************************************************)
\* C24: a callback attempts a path whose load fails exactly once: the
\* failed attempt is the last load of the invocation, the path was not
\* attempted before it, and the invocation ends as an error naming that
\* failure; and the paths an invocation attempts are among those it was
\* called with.
NoRetry ==
    last.op \in Callbacks =>
        /\ \A i \in 1 .. Len(last.loads) :
              last.loads[i].kind # "ok" =>
                  /\ i = Len(last.loads)
                  /\ \A j \in 1 .. Len(last.loads) :
                        last.loads[j].path = last.loads[i].path => j = i
                  /\ last.kind = "error" /\ last.err = last.loads[i].kind
                  /\ last.table = NoTable /\ last.overlaps = NoOverlaps
        /\ \A e \in Attempts : e.path \in {last.a, last.b, last.c}

\* the Venn callback has loaded its first file and failed on the second,
\* which is not on disk
VennSecondLoadFailedReached ==
    /\ last.op = "venn" /\ last.kind = "error"
    /\ Len(last.loads) = 2
    /\ last.loads[1].kind = "ok" /\ last.loads[2].kind = "NotFound"

(***************************************************************************)
(* Claims about the exports.                                               *)
(***************************************************************************)
Exports == {"export_volcano", "export_scatter"}
TabOf(op) == IF op = "export_volcano" THEN "volcano" ELSE "scatter"

\* the store of each tab holds what the most recent update of the tab
\* returned: the step of an update sets it, no other step changes it
StoreFollowsUpdate ==
    \A tab \in Callbacks :
        IF last'.op = tab /\ last' # last
        THEN data_store'[tab] = IF last'.kind = "ok" /\ tab # "venn"
                                THEN Some(last'.table.rows)
                                ELSE IF last'.kind = "ok" THEN Some(last'.overlaps)
                                ELSE None
        ELSE data_store'[tab] = data_store[tab]

\* C25: an export of the volcano or scatter tab gives a file with exactly
\* the rows of the most recent update of the tab when that update gave a
\* result, and no file when it failed, was rejected or had no file selected.
ExportReproducesTable ==
    last.op \in Exports =>
        IF data_store[TabOf(last.op)] # None
        THEN last.kind = "file" /\ last.table.rows = data_store[TabOf(last.op)][1]
        ELSE last.kind = "none" /\ last.table = NoTable

\* the rule the export callbacks follow: a file with the rows of the most
\* recent update when it gave at least one row, no file when it gave no row
\* or no result
ExportUnlessEmpty ==
    last.op \in Exports =>
        IF data_store[TabOf(last.op)] # None /\ data_store[TabOf(last.op)][1] # <<>>
        THEN /\ last.kind = "file" /\ last.table.rows = data_store[TabOf(last.op)][1]
             /\ "gene_symbol" \in last.table.cols
        ELSE last.kind = "none" /\ last.table = NoTable

StoreKept == [][StoreFollowsUpdate]_vars

\* an export of the scatter tab after an update whose significance filter
\* removed a row
FilteredExportReached ==
    /\ last.op = "export_scatter" /\ last.kind = "file"
    /\ Len(last.table.rows) = 1

\* an export after an update that succeeded with no row
EmptyExportReached ==
    /\ last.op \in Exports
    /\ data_store[TabOf(last.op)] = Some(<<>>)

(***************************************************************************)
(* Claims about rejected selections and failed loads.                      *)
(***************************************************************************)
\* C26: the scatter callback called with the same file on both sides
\* returns a message and no data, attempts no load, and leaves the cache
\* and the frames as they were.
SameFileRejected ==
    [][(last'.op = "scatter" /\ last'.a # NoPath /\ last'.a = last'.b) =>
          /\ last'.kind = "warning"
          /\ last'.table = NoTable /\ last'.loads = <<>>
          /\ data_store'["scatter"] = None
          /\ last' # last => _data_cache' = _data_cache /\ heap' = heap]_vars

\* the same file, on disk and not cached, was selected for both sides
SameFileSelectedReached ==
    /\ last.op = "scatter" /\ last.a # NoPath /\ last.a = last.b
    /\ exists[last.a] /\ _data_cache[last.a] = NoRef
    /\ \E p \in Paths : _data_cache[p] # NoRef

\* the step is a load that failed, and it left the cache as it was; and a
\* failed attempt of any call left the entry of its path as it was
FailedLoadKeepsCache ==
    /\ (last'.op = "load" /\ last'.kind # "ok" /\ last' # last) =>
          /\ _data_cache' = _data_cache
          /\ \A p \in Paths :
                _data_cache[p] # NoRef => heap'[_data_cache[p]] = heap[_data_cache[p]]
    /\ last' # last =>
          \A i \in 1 .. Len(last'.loads) :
              last'.loads[i].kind # "ok" =>
                  _data_cache'[last'.loads[i].path] = _data_cache[last'.loads[i].path]

\* the outcome of a load attempt is the one the file system gives
FromFileSystem(e) ==
    /\ ~e.hit
    /\ e.kind = "NotFound" <=> ~e.existed
    /\ e.kind = "SchemaError" <=> (e.existed /\ missing_cols(fileContent[e.path]) # {})

\* the call before the step failed to load path p and the step loads p first
LoadsAgain(p) ==
    /\ \E e \in Attempts : e.kind # "ok" /\ e.path = p
    /\ last'.loads # <<>> /\ last'.loads[1].path = p

\* C27 as stated: a failed load leaves the cache as it was, and the next
\* load of the same path is decided from the file system.
FailedLoadThenFileSystem ==
    [][/\ FailedLoadKeepsCache
       /\ \A p \in Paths : LoadsAgain(p) => FromFileSystem(last'.loads[1])]_vars

\* C27 amended: a failed load leaves the cache as it was: no entry is
\* created for the failing path and no entry is changed; the next load of
\* the path is decided from the file system when the path was not cached at
\* the failure, and is served from the unchanged entry when it was cached
\* (the failed load had bypassed the cache) and the load uses the cache.
FailedLoadUnlessCached ==
    [][/\ FailedLoadKeepsCache
       /\ \A p \in Paths :
             LoadsAgain(p) =>
                 /\ _data_cache[p] = NoRef => FromFileSystem(last'.loads[1])
                 /\ last'.loads[1].hit =>
                       /\ _data_cache[p] # NoRef
                       /\ last'.loads[1].value = heap[_data_cache[p]]]_vars

\* a load that bypassed the cache has failed for a path that is cached, with
\* the file gone
BypassFailedOnCachedReached ==
    /\ last.op = "load" /\ last.kind = "NotFound"
    /\ _data_cache[last.a] # NoRef

(***************************************************************************)
(* Claims about the significance flags of the volcano tab.                 *)
(***************************************************************************)
VolcanoDone == last.op = "volcano" /\ last.gene_search = "" /\ last.loads[1].kind = "ok"

\* the identifiers of the rows the update returned with the flag set
Flagged ==
    {str(last.table.rows[i]["gene_symbol"]) :
        i \in {k \in 1 .. Len(last.table.rows) :
                  last.table.rows[k]["significant"] = Flag(TRUE)}} \ {"nan"}

\* what extract_degs returns for the file the update loaded
Extracted == DegsSet(DegsList(Loaded, last.padj_threshold, last.lfc_threshold))

\* C28: for a file that loads, and no search term, the identifiers the
\* volcano update returns flagged as significant are those extract_degs
\* returns for the same thresholds, also for a file with only the raw
\* p-value column or with no significance column.
VolcanoFlagsAsExtract == VolcanoDone => Flagged = Extracted

\* the same for the files the update can show: those with the baseMean,
\* pvalue and padj columns
VolcanoFlagsAsExtractWhenShown ==
    (VolcanoDone /\ table_columns \subseteq Loaded.cols) =>
        last.kind = "ok" /\ Flagged = Extracted

\* an update of a complete file with a gene that passes and a row whose
\* adjusted value is missing
VolcanoMixedReached ==
    /\ VolcanoDone /\ last.kind = "ok" /\ Flagged # {}
    /\ \E row \in RowSet(Loaded) : row["padj"] = Missing

\* an update of a file without the adjusted column, with a gene whose raw
\* value and fold change pass
VolcanoRawOnlyReached ==
    /\ VolcanoDone /\ "padj" \notin Loaded.cols /\ "pvalue" \in Loaded.cols
    /\ Extracted # {}

(***************************************************************************)
(* C29                                                                     *)
(***************************************************************************)
Directions == {Str("Up-regulated"), Str("Down-regulated"), Str("Not significant")}

\* the frame of the update after lines 559-567, for the file it loaded
Derived == VolcanoDerive(Loaded, last.padj_threshold, last.lfc_threshold)

\* C29: in the volcano update, for a fold-change threshold >= 0, every row
\* gets one of the three directions; a row is flagged significant exactly
\* when its direction is Up-regulated, and then its fold change is above 0,
\* or Down-regulated, and then its fold change is below 0; the table a
\* successful update returns carries these columns.
DirectionMatchesFlag ==
    (VolcanoDone /\ last.lfc_threshold >= 0) =>
        /\ \A i \in 1 .. Len(Derived.rows) :
             LET row == Derived.rows[i]
             IN  /\ row["direction"] \in Directions
                 /\ row["significant"] \in {Flag(TRUE), Flag(FALSE)}
                 /\ row["significant"] = Flag(TRUE) <=>
                        row["direction"] \in {Str("Up-regulated"), Str("Down-regulated")}
                 /\ row["direction"] = Str("Up-regulated") => Gt(row["log2FoldChange"], 0)
                 /\ row["direction"] = Str("Down-regulated") => Lt(row["log2FoldChange"], 0)
        /\ last.kind = "ok" => last.table = Derived

\* an update at threshold 0 returned a flagged row next to a row whose fold
\* change is 0 and whose p-value is under the cut
ZeroFoldChangeReached ==
    /\ VolcanoDone /\ last.kind = "ok" /\ last.lfc_threshold = 0
    /\ \E i, j \in 1 .. Len(last.table.rows) :
         /\ last.table.rows[i]["significant"] = Flag(TRUE)
         /\ last.table.rows[i]["direction"] = Str("Up-regulated")
         /\ last.table.rows[j]["log2FoldChange"] = Num(0)
         /\ Lt(last.table.rows[j]["padj"], last.padj_threshold)
         /\ last.table.rows[j]["direction"] = Str("Not significant")

(***************************************************************************)
(* C30                                                                     *)
(***************************************************************************)
\* the table load makes of the file of a path
Parsed(p) == ParseFile(fileContent[p])

Complete(r, p) == r \in DOMAIN heap /\ heap[r] = Parsed(p)

\* a call that has returned a frame
Succeeded(t) == calls[t].kind = "ok"

\* C30: with load calls of several threads interleaved statement by
\* statement and no lock, every call that succeeds returns the table parsed
\* from its file; every entry of the cache, and every entry a call has taken
\* from it, is at all times that complete table; and once a call that uses
\* the cache has succeeded the cache maps its path to that table.
LoadsNeedNoLock ==
    /\ \A t \in Threads : Succeeded(t) => calls[t].ret = Parsed(calls[t].file_path)
    /\ \A p \in Paths : _data_cache[p] # NoRef => Complete(_data_cache[p], p)
    /\ \A t \in Threads : calls[t].src # NoRef => Complete(calls[t].src, calls[t].file_path)
    /\ \A t \in Threads : calls[t].kind # "KeyError"
    /\ \A t \in Threads :
         (Succeeded(t) /\ calls[t].use_cache) =>
             /\ _data_cache[calls[t].file_path] # NoRef
             /\ Complete(_data_cache[calls[t].file_path], calls[t].file_path)

\* two threads missed the same path, each parsed the file and each assigned
\* the entry, the second over the first; both have returned
RacingMissesReached ==
    \E t1, t2 \in Threads :
        /\ t1 # t2
        /\ calls[t2].file_path = calls[t1].file_path
        /\ Succeeded(t1) /\ calls[t1].use_cache /\ ~calls[t1].hit
        /\ Succeeded(t2) /\ calls[t2].use_cache /\ ~calls[t2].hit

====
